---- MODULE Spec2Model ----
(***************************************************************************)
(* Model of the portfolio chatbot backend: the PDFProcessor retrieval      *)
(* engine (app/utils/pdf_processor.py), the context lookup of the chatbot  *)
(* engines (app/utils/chatbot_engine.py, enhanced_chatbot_engine.py) and   *)
(* the text segmenter PDFProcessor.split_text.                             *)
(***************************************************************************)
EXTENDS Integers, Sequences, FiniteSets, TLC

(***************************************************************************)
(* Bounds of the model.                                                    *)
(***************************************************************************)
\* largest k of a query
MaxK == 2
\* number of operations started in one behaviour
MaxOps == 3

\* the texts: page contents of Documents and query strings
Texts == {1, 2}

(***************************************************************************)
(* Optional values: None is the empty tuple, an object x is <<x>>.         *)
(***************************************************************************)
None == <<>>
Some(x) == <<x>>
Val(o) == o[1]

(***************************************************************************)
(* Document lists: a Document is identified by its page_content.           *)
(***************************************************************************)
\* the document lists handed to create_vector_store
Corpora == {<<1>>, <<2, 1>>, <<1, 2>>}

(***************************************************************************)
(* The embedder: SentenceTransformer.encode, one vector per text, same     *)
(* order.  A vector is modelled by one coordinate.                         *)
(***************************************************************************)
EncodeOne(t) == 3 * t
encode(texts) == [i \in 1..Len(texts) |-> EncodeOne(texts[i])]

(***************************************************************************)
(* faiss.IndexFlatL2: the stored vectors in insertion order; identifier i  *)
(* (0-based) is the (i+1)-th stored vector.                                *)
(***************************************************************************)
IndexFlatL2 == <<>>
IndexAdd(index, vectors) == index \o vectors
Dist(a, b) == (a - b) * (a - b)
\* number of stored vectors that come before identifier i in the result
Rank(index, qv, i) ==
    Cardinality({j \in 1..Len(index) :
        \/ Dist(index[j], qv) < Dist(index[i], qv)
        \/ Dist(index[j], qv) = Dist(index[i], qv) /\ j < i})
\* IndexFlatL2.search: k identifiers by ascending distance, padded with -1
IndexSearch(index, qv, k) ==
    [r \in 1..k |->
        IF r <= Len(index)
        THEN (CHOOSE i \in 1..Len(index) : Rank(index, qv, i) = r - 1) - 1
        ELSE -1]

(***************************************************************************)
(* Strings are sequences of characters; a character is a one-character     *)
(* string, "bullet" (U+2022) or "sharp_s" (U+00DF).  Offsets are 0-based   *)
(* as in the source; Slice(s, a, b) is s[a:b].                             *)
(***************************************************************************)
Min(a, b) == IF a <= b THEN a ELSE b
Max(a, b) == IF a >= b THEN a ELSE b
Idx(n) == [i \in 1..n |-> i]
Slice(s, a, b) == SubSeq(s, Max(a, 0) + 1, Min(b, Len(s)))
Last(s) == s[Len(s)]

\* the concatenation of the sequences ss[lo], ..., ss[hi]
RECURSIVE Concat(_, _, _)
Concat(ss, lo, hi) ==
    IF lo > hi THEN <<>>
    ELSE IF lo = hi THEN ss[lo]
    ELSE LET mid == (lo + hi) \div 2
         IN Concat(ss, lo, mid) \o Concat(ss, mid + 1, hi)
Flatten(ss) == Concat(ss, 1, Len(ss))

\* str.isspace of one character
Whitespace == {" ", "\n", "\r", "\t"}
LowerChars ==
    <<"a", "b", "c", "d", "e", "f", "g", "h", "i", "j", "k", "l", "m",
      "n", "o", "p", "q", "r", "s", "t", "u", "v", "w", "x", "y", "z">>
UpperChars ==
    <<"A", "B", "C", "D", "E", "F", "G", "H", "I", "J", "K", "L", "M",
      "N", "O", "P", "Q", "R", "S", "T", "U", "V", "W", "X", "Y", "Z">>
LowerSet == {LowerChars[i] : i \in 1..26} \cup {"sharp_s"}
UpperSet == {UpperChars[i] : i \in 1..26}

\* str.upper of one character: "sharp_s" has the two-character upper case "SS"
UpperChar(c) ==
    IF c = "sharp_s" THEN <<"S", "S">>
    ELSE IF c \in LowerSet
         THEN <<UpperChars[CHOOSE i \in 1..26 : LowerChars[i] = c]>>
         ELSE <<c>>
\* str.upper
upper(s) == Flatten([i \in 1..Len(s) |-> UpperChar(s[i])])

\* str.isupper: some cased character, and no lower-case one
isupper(s) ==
    /\ \E i \in 1..Len(s) : s[i] \in UpperSet
    /\ \A i \in 1..Len(s) : s[i] \notin LowerSet

\* str.replace(old, " ") for a one-character old
replace(s, old) == [i \in 1..Len(s) |-> IF s[i] = old THEN " " ELSE s[i]]

\* str.lstrip / str.rstrip / str.strip over the characters of the set cs
lstrip(s, cs) ==
    IF \A i \in 1..Len(s) : s[i] \in cs THEN <<>>
    ELSE LET a == CHOOSE i \in 1..Len(s) :
                      s[i] \notin cs /\ \A j \in 1..(i - 1) : s[j] \in cs
         IN SubSeq(s, a, Len(s))
rstrip(s, cs) ==
    IF \A i \in 1..Len(s) : s[i] \in cs THEN <<>>
    ELSE LET b == CHOOSE i \in 1..Len(s) :
                      s[i] \notin cs /\ \A j \in (i + 1)..Len(s) : s[j] \in cs
         IN SubSeq(s, 1, b)
strip(s) == lstrip(rstrip(s, Whitespace), Whitespace)

\* the offsets (1-based) at which p occurs in s
Occurs(s, p, i) ==
    /\ i + Len(p) - 1 <= Len(s)
    /\ s[i] = p[1]
    /\ SubSeq(s, i, i + Len(p) - 1) = p
Matches(s, p) == SelectSeq(Idx(Len(s)), LAMBDA i : Occurs(s, p, i))

\* str.find: the 0-based offset of the first occurrence, or -1
find(s, p) ==
    LET ms == Matches(s, p) IN IF ms = <<>> THEN -1 ELSE ms[1] - 1

\* p in s
contains(s, p) == find(s, p) # -1

\* str.split(p) scans left to right and cuts at an occurrence unless it
\* overlaps the occurrence cut before it: occurrence ms[k] is cut unless an
\* occurrence less than Len(p) before it is cut
RECURSIVE Cut(_, _, _)
Cut(ms, m, k) ==
    \A j \in Max(1, k - m + 1)..(k - 1) :
        ms[k] - ms[j] < m => ~Cut(ms, m, j)

\* str.split(p) for a non-empty separator p
split(s, p) ==
    LET m == Len(p)
        ms == Matches(s, p)
        cuts == SelectSeq(Idx(Len(ms)), LAMBDA k : Cut(ms, m, k))
        n == Len(cuts)
    IN [j \in 1..(n + 1) |->
            SubSeq(s,
                   IF j = 1 THEN 1 ELSE ms[cuts[j - 1]] + m,
                   IF j = n + 1 THEN Len(s) ELSE ms[cuts[j]] - 1)]

\* str.split(): the maximal runs of non-whitespace characters
split_ws(s) ==
    LET n == Len(s)
        IsStart(i) == s[i] \notin Whitespace /\ (i = 1 \/ s[i - 1] \in Whitespace)
        starts == SelectSeq(Idx(n), IsStart)
        End(a) == CHOOSE e \in a..n :
                      /\ (e = n \/ s[e + 1] \in Whitespace)
                      /\ \A j \in a..(e - 1) : s[j + 1] \notin Whitespace
    IN [w \in 1..Len(starts) |-> SubSeq(s, starts[w], End(starts[w]))]

\* sep.join(words)
join(words, sep) ==
    Flatten([w \in 1..Len(words) |->
                IF w = 1 THEN words[w] ELSE sep \o words[w]])

(***************************************************************************)
(* PDFProcessor.split_text and PDFProcessor._split_large_section           *)
(***************************************************************************)
\* line 16: self.chunk_size
chunk_size == 1000
\* line 118: the shortest trimmed chunk the filter keeps is longer than this
min_chunk_length == 30
\* line 72: the shortest introduction kept is longer than this
min_intro_length == 50

\* line 48-52
section_patterns == <<
    <<"E", "D", "U", "C", "A", "T", "I", "O", "N">>,
    <<"E", "X", "P", "E", "R", "I", "E", "N", "C", "E">>,
    <<"S", "K", "I", "L", "L", "S">>,
    <<"P", "R", "O", "J", "E", "C", "T", "S">>,
    <<"C", "E", "R", "T", "I", "F", "I", "C", "A", "T", "I", "O", "N", "S">>,
    <<"C", "O", "N", "T", "A", "C", "T">>,
    <<"T", "E", "C", "H", "N", "I", "C", "A", "L", " ", "S", "K", "I", "L", "L", "S">>,
    <<"W", "O", "R", "K", " ", "E", "X", "P", "E", "R", "I", "E", "N", "C", "E">>,
    <<"P", "R", "O", "F", "E", "S", "S", "I", "O", "N", "A", "L", " ", "E", "X", "P", "E", "R", "I", "E", "N", "C", "E">>,
    <<"A", "C", "A", "D", "E", "M", "I", "C">>,
    <<"A", "C", "H", "I", "E", "V", "E", "M", "E", "N", "T", "S">>,
    <<"A", "W", "A", "R", "D", "S">>
>>

\* line 128
logical_breaks ==
    <<<<" ", "|", " ">>, <<" ", "bullet", " ">>, <<" ", "-", " ">>,
      <<".", " ">>, <<",", " ">>>>

\* line 40-42: newlines to spaces, whitespace runs to one space, ends trimmed
normalize(text) == join(split_ws(replace(replace(text, "\n"), "\r")), <<" ">>)

\* the running sums of the numbers ns[lo], ..., ns[hi]
RECURSIVE Sums(_, _, _)
Sums(ns, lo, hi) ==
    IF lo > hi THEN <<>>
    ELSE IF lo = hi THEN <<ns[lo]>>
    ELSE LET mid == (lo + hi) \div 2
             l == Sums(ns, lo, mid)
             r == Sums(ns, mid + 1, hi)
         IN l \o [i \in 1..Len(r) |-> r[i] + l[Len(l)]]

\* The accumulation loops of line 92-112, 135-151 and 159-168: the items are
\* added to current_chunk, joined by sep, while the chunk with the next item
\* is no longer than max_size; an item that does not fit closes the chunk and
\* starts the next one.  The result is the chunks as accumulated, one per run
\* of items: the run that starts at item a ends at the last item b up to
\* which the joined length stays within max_size (at a itself when nothing
\* more fits).
RECURSIVE Runs(_, _, _, _, _)
Runs(items, sums, gap, max_size, a) ==
    LET n == Len(items)
        Total(b) == sums[b] - (IF a = 1 THEN 0 ELSE sums[a - 1]) + gap * (b - a)
        b == CHOOSE e \in a..n :
                /\ (e = n \/ Total(e + 1) > max_size)
                /\ \A j \in (a + 1)..e : Total(j) <= max_size
    IN IF a > n THEN <<>>
       ELSE <<<<a, b>>>> \o Runs(items, sums, gap, max_size, b + 1)

accumulate(items, sep, max_size) ==
    LET sums == Sums([i \in 1..Len(items) |-> Len(items[i])], 1, Len(items))
        runs == Runs(items, sums, Len(sep), max_size, 1)
    IN [r \in 1..Len(runs) |-> join(SubSeq(items, runs[r][1], runs[r][2]), sep)]

\* the set of characters of a string
Chars(s) == {s[i] : i \in 1..Len(s)}

\* line 132-153: the chunks of a section cut at break_char
split_parts(section, break_char, max_size) ==
    LET parts == split(section, break_char)
        stripped == [i \in 1..Len(parts) |-> strip(parts[i])]
        kept == SelectSeq(stripped, LAMBDA part : part # <<>>)
        with_break == [i \in 1..Len(kept) |-> kept[i] \o break_char]
        chunks == accumulate(with_break, <<>>, max_size)
    IN [c \in 1..Len(chunks) |-> rstrip(chunks[c], Chars(break_char))]

\* line 156-170: the chunks of a section cut at whitespace
split_words(section, max_size) == accumulate(split_ws(section), <<" ">>, max_size)

\* line 123-170
_split_large_section(section, max_size) ==
    LET found == SelectSeq(logical_breaks, LAMBDA b : contains(section, b))
    IN IF found # <<>>
       THEN split_parts(section, found[1], max_size)
       ELSE split_words(section, max_size)

\* line 57-63: the (pos, pattern) pairs of the patterns found, sorted.  No
\* pattern is a prefix of another, so no two pairs share a position and the
\* order is the order of the positions.
sections_found(text) ==
    LET U == upper(text)
        pos == [p \in 1..Len(section_patterns) |-> find(U, section_patterns[p])]
        hits == {p \in 1..Len(section_patterns) : pos[p] # -1}
        Before(p) == Cardinality({q \in hits :
                        pos[q] < pos[p] \/ (pos[q] = pos[p] /\ q < p)})
    IN [r \in 1..Cardinality(hits) |->
            pos[CHOOSE p \in hits : Before(p) = r - 1]]

\* a variant: the introduction is tested against the threshold of the filter
section_chunks_one_threshold(text, found) ==
    LET intro_chunk == strip(Slice(text, 0, found[1]))
        intro == IF found[1] > 0 /\ Len(intro_chunk) > min_chunk_length
                 THEN <<intro_chunk>> ELSE <<>>
        Section(i) ==
            LET end_pos == IF i + 1 <= Len(found) THEN found[i + 1]
                           ELSE Len(text)
                section_content == strip(Slice(text, found[i], end_pos))
            IN IF Len(section_content) > chunk_size
               THEN _split_large_section(section_content, chunk_size)
               ELSE <<section_content>>
    IN intro \o Flatten([i \in 1..Len(found) |-> Section(i)])

\* line 65-86: the chunks of the sections, before the filter
section_chunks(text, found) ==
    LET intro_chunk == strip(Slice(text, 0, found[1]))
        intro == IF found[1] > 0 /\ Len(intro_chunk) > min_intro_length
                 THEN <<intro_chunk>> ELSE <<>>
        Section(i) ==
            LET end_pos == IF i + 1 <= Len(found) THEN found[i + 1]
                           ELSE Len(text)
                section_content == strip(Slice(text, found[i], end_pos))
            IN IF Len(section_content) > chunk_size
               THEN _split_large_section(section_content, chunk_size)
               ELSE <<section_content>>
    IN intro \o Flatten([i \in 1..Len(found) |-> Section(i)])

\* line 89-112: the chunks of the sentences, before the filter
sentence_chunks(text) ==
    LET sentences == split(text, <<".", " ">>)
        stripped == [i \in 1..Len(sentences) |-> strip(sentences[i])]
        kept == SelectSeq(stripped, LAMBDA sentence : sentence # <<>>)
        ended == [i \in 1..Len(kept) |->
                    IF Last(kept[i]) \in {".", "!", "?", ":"}
                    THEN kept[i] ELSE Append(kept[i], ".")]
        chunks == accumulate(ended, <<" ">>, chunk_size)
    IN [c \in 1..Len(chunks) |-> strip(chunks[c])]

\* a variant: the filter tests the case only
keeps_any_length(chunk) == ~isupper(strip(chunk))

\* line 118: the filter keeps a chunk
keeps(chunk) ==
    Len(strip(chunk)) > min_chunk_length /\ ~isupper(strip(chunk))

\* a variant: the filter keeps every chunk
filtered_chunks_all(chunks) == [i \in 1..Len(chunks) |-> strip(chunks[i])]

\* line 114-119
filtered_chunks(chunks) ==
    LET kept == SelectSeq(chunks, keeps)
    IN [i \in 1..Len(kept) |-> strip(kept[i])]

\* line 44-112: the chunks before the filter, of the normalized text
raw_chunks(text) ==
    LET found == sections_found(text)
    IN IF found # <<>> THEN section_chunks(text, found)
       ELSE sentence_chunks(text)

\* a variant: no fallback chunk
split_text_no_fallback(text0) ==
    IF text0 = <<>> THEN <<>>
    ELSE filtered_chunks(raw_chunks(normalize(text0)))

\* a variant: the fallback chunk is cut from the text as it was passed in
split_text_raw_fallback(text0) ==
    IF text0 = <<>> THEN <<>>
    ELSE LET filtered == filtered_chunks(raw_chunks(normalize(text0)))
         IN IF filtered # <<>> THEN filtered
            ELSE <<Slice(text0, 0, chunk_size)>>

\* line 35-121
split_text(text0) ==
    IF text0 = <<>> THEN <<>>
    ELSE LET text == normalize(text0)
             filtered == filtered_chunks(raw_chunks(text))
         IN IF filtered # <<>> THEN filtered
            ELSE <<Slice(text, 0, chunk_size)>>

\* str.endswith
endswith(s, suffix) ==
    Len(s) >= Len(suffix) /\ SubSeq(s, Len(s) - Len(suffix) + 1, Len(s)) = suffix

\* line 9-12: class Document
Document(page_content, source, chunk, total_chunks) ==
    [page_content |-> page_content,
     metadata |-> [source |-> source, chunk |-> chunk,
                   total_chunks |-> total_chunks]]

\* a variant: the chunk index runs on over the sources of the directory
process_pdfs_from_directory_running(directory) ==
    LET FileChunks(file) ==
            IF endswith(file.name, <<".", "p", "d", "f">>)
               /\ strip(file.text) # <<>>
            THEN LET chunks == split_text(file.text)
                 IN [i \in 1..Len(chunks) |->
                        [page_content |-> chunks[i], source |-> file.name,
                         total_chunks |-> Len(chunks)]]
            ELSE <<>>
        all == Flatten([f \in 1..Len(directory) |-> FileChunks(directory[f])])
    IN [p \in 1..Len(all) |->
           Document(all[p].page_content, all[p].source, p - 1,
                    all[p].total_chunks)]

\* line 172-198: a directory is the listing os.listdir gives, each file with
\* its name and the text extract_text_from_pdf gets from it
process_pdfs_from_directory(directory) ==
    LET FileDocuments(file) ==
            IF endswith(file.name, <<".", "p", "d", "f">>)
               /\ strip(file.text) # <<>>
            THEN LET chunks == split_text(file.text)
                 IN [i \in 1..Len(chunks) |->
                        Document(chunks[i], file.name, i - 1, Len(chunks))]
            ELSE <<>>
    IN Flatten([f \in 1..Len(directory) |-> FileDocuments(directory[f])])

\* retrain_improved.py line 29-59: the Documents retrain_chatbot builds from
\* the text of its one PDF; none when the text is blank
retrain_source == <<"a", "d", "i", "t", "y", "a", "-", "k", "u", "m", "a", "r",
                    ".", "p", "d", "f">>
retrain_documents(text) ==
    IF strip(text) = <<>> THEN <<>>
    ELSE LET chunks == split_text(text)
         IN [i \in 1..Len(chunks) |->
                Document(chunks[i], retrain_source, i - 1, Len(chunks))]

(***************************************************************************)
(* The texts and directories the segmenter is run on.                      *)
(***************************************************************************)
\* longest text, in pieces
MaxPieces == 2
\* longest directory listing, in files
MaxFiles == 2

Repeat(s, n) == Flatten([i \in 1..n |-> s])

EDUCATION == section_patterns[1]
SKILLS == section_patterns[3]
Phrase35 ==
    <<"s", "t", "u", "d", "i", "e", "d", " ", "c", "o", "m", "p", "u", "t",
    "e", "r", " ", "s", "c", "i", "e", "n", "c", "e", " ", "a", "t", " ",
    "c", "o", "l", "l", "e", "g", "e">>
Phrase56 ==
    <<"b", "u", "i", "l", "t", " ", "s", "e", "v", "e", "r", "a", "l", " ",
    "w", "e", "b", " ", "a", "p", "p", "l", "i", "c", "a", "t", "i", "o",
    "n", "s", " ", "w", "i", "t", "h", " ", "a", " ", "s", "m", "a", "l",
    "l", " ", "t", "e", "a", "m", " ", "o", "f", " ", "f", "i", "v", "e">>
Shout ==
    <<"P", "Y", "T", "H", "O", "N", " ", "R", "E", "A", "C", "T", " ", "N",
    "O", "D", "E", " ", "D", "O", "C", "K", "E", "R", " ", "L", "I", "N",
    "U", "X", " ", "G", "I", "T", " ", "A", "W", "S">>
\* 1080 characters, cut by ", "
LongList == Repeat(<<"a", "l", "p", "h", "a", " ", "b", "e", "t", "a", ",", " ">>, 90)
\* 1080 characters, cut by whitespace only
LongWords == Repeat(<<"l", "o", "r", "e", "m", " ">>, 180)

Pieces ==
    {EDUCATION, SKILLS, <<" ">>, <<".", " ">>, <<"\n">>, <<"a", "b", "c">>,
     Phrase35, Phrase56, Shout, <<"sharp_s">>, LongList, LongWords}

\* the scenario of the specification's section 8
ScenarioText ==
    <<"E", "D", "U", "C", "A", "T", "I", "O", "N", ":", " ", "B", "T", "e",
    "c", "h", " ", "2", "0", "2", "3", "-", "2", "0", "2", "7", ".", " ",
    "S", "K", "I", "L", "L", "S", ":", " ", "P", "y", "t", "h", "o", "n",
    ",", " ", "R", "e", "a", "c", "t", ".">>

\* a text with an introduction and two headed sections
CvText ==
    Phrase56 \o <<" ">> \o SKILLS \o <<" ">> \o Phrase35
             \o <<" ">> \o EDUCATION \o <<" ">> \o Phrase56
\* the same with a first section too short to be kept
CvShortText ==
    Phrase56 \o <<" ">> \o SKILLS \o <<" ", "a", "b", "c", " ">>
             \o EDUCATION \o <<" ">> \o Phrase56

\* an introduction of 35 characters before a headed section
CvBriefText == Phrase35 \o <<" ">> \o SKILLS \o <<" ">> \o Phrase56

\* a headed section of 1013 characters whose second word has 1005
RunOnText == SKILLS \o <<":", " ">> \o Repeat(<<"l", "o", "r", "e", "m">>, 201)

\* 5000 characters with no heading and no ". ": 833 words and a last one
Source5000 ==
    Repeat(<<"l", "o", "r", "e", "m", " ">>, 833) \o <<"a", "b">>

SplitInputs ==
    {Flatten(ps) : ps \in UNION {[1..n -> Pieces] : n \in 0..MaxPieces}}
        \cup {ScenarioText, CvText, CvShortText, CvBriefText, RunOnText,
              Source5000}

PdfFile(name, text) == [name |-> name \o <<".", "p", "d", "f">>, text |-> text]
Files ==
    {PdfFile(<<"d", "o", "c", "1">>, ScenarioText),
     PdfFile(<<"c", "v">>, CvText),
     PdfFile(<<"s", "h", "o", "r", "t">>, CvShortText),
     PdfFile(<<"l", "o", "n", "g">>, SKILLS \o <<" ">> \o LongList),
     PdfFile(<<"b", "l", "a", "n", "k">>, <<" ", "\n">>),
     [name |-> <<"n", "o", "t", "e", "s", ".", "t", "x", "t">>, text |-> Phrase56]}
Directories == UNION {[1..n -> Files] : n \in 0..MaxFiles}

VARIABLES
    vector_store,   \* PDFProcessor.vector_store: None or Some(index)
    documents,      \* PDFProcessor.documents
    disk_index,     \* artifact index.faiss : [state, data]
    disk_docs,      \* artifact documents.pkl : [state, data]
    ingest,         \* the call of create_vector_store in flight
    load,           \* the call of load_vector_store in flight
    save,           \* the call of save_vector_store in flight
    query,          \* the call of search_similar_documents in flight
    outcome,        \* what the last finished call of each operation gave its caller
    published,      \* the (index, documents) pairs that finished ingests and loads built
    ops,            \* operations started so far on this engine
    seg_pc,         \* the segmenter run: "off"; "text", "directory", "retrain",
                    \* "create" or "initialize" for the call to make;
                    \* "create_store" or "initialize_store" when an ingest has
                    \* the Documents of its directory; "done", "retrained",
                    \* "created" or "initialized" after the call
    seg_text,       \* the text handed to split_text
    seg_chunks,     \* the chunks split_text returned
    seg_directory,  \* the directory handed to process_pdfs_from_directory
    seg_documents,  \* the Documents process_pdfs_from_directory returned
    structured_data, \* EnhancedChatbotEngine.structured_data
    chat_pc,        \* app.py: "off"; "main" while the main program starts;
                    \* "serving" once the server takes requests; "generate"
                    \* for one call of generate_response on its own
    chat_sessions,  \* app.py chat_sessions: session id -> the list it holds
                    \* (0 when the key is absent)
    heap,           \* the list objects of the chat histories, by identity
    req,            \* the request each server thread handles
    chat_log        \* per session, every message exchanged, in order

enginevars == <<vector_store, documents, disk_index, disk_docs, ingest, load,
                save, query, outcome, published, ops>>
segvars == <<seg_pc, seg_text, seg_chunks, seg_directory, seg_documents>>
storevars == <<vector_store, documents, disk_index, disk_docs, ingest, load,
               save, query, outcome, published>>
chatvars == <<structured_data, chat_pc, chat_sessions, heap, req, chat_log>>
vars == <<enginevars, segvars, chatvars>>

\* an artifact of the storage path; by: the number of the save_vector_store
\* call of this process that wrote it, 0 for what an earlier process left
Missing == [state |-> "missing", data |-> <<>>, by |-> 0]
Corrupt == [state |-> "corrupt", data |-> <<>>, by |-> 0]
File(d) == [state |-> "ok", data |-> d, by |-> 0]
WrittenBy(artifact, seq) == [artifact EXCEPT !.by = seq]

\* before: the engine's (vector_store, documents) when the call started
IngestIdle == [pc |-> "idle", docs |-> <<>>, emb |-> <<>>, seq |-> 0,
               before |-> <<None, <<>>>>]
\* index_by: the writer of the index artifact the call has read
LoadIdle == [pc |-> "idle", index |-> None, docs |-> None, seq |-> 0,
             before |-> <<None, <<>>>>, index_by |-> 0]
SaveIdle == [pc |-> "idle", seq |-> 0]
QueryIdle == [pc |-> "idle", text |-> 1, k |-> 0,
              indices |-> <<>>, seen_index |-> None, seen_docs |-> None,
              results |-> <<>>, encoded |-> 0, seq |-> 0]

\* what a finished call gave its caller: it returned or raised (kind, error);
\* results are the Documents a query returned, encodes the embedder calls it
\* made, seq the number of the call.  context and response are what
\* get_relevant_context and generate_response made of a query's outcome.
Layer(kind, error, text) == [kind |-> kind, error |-> error, text |-> text]
NoLayer == Layer("none", "none", "")
NoOutcome == [op |-> "none", kind |-> "none", error |-> "none",
              results |-> <<>>, encodes |-> 0, seq |-> 0,
              context |-> NoLayer, response |-> NoLayer]
Returned(op, seq) ==
    [op |-> op, kind |-> "return", error |-> "none",
     results |-> <<>>, encodes |-> 0, seq |-> seq,
     context |-> NoLayer, response |-> NoLayer]
Raised(op, seq, error) ==
    [op |-> op, kind |-> "raise", error |-> error,
     results |-> <<>>, encodes |-> 0, seq |-> seq,
     context |-> NoLayer, response |-> NoLayer]

Active(t) == IF t.pc # "idle" THEN 1 ELSE 0
Busy == Active(ingest) + Active(load) + Active(save) + Active(query)

\* the engine is Ready once it holds an index
Ready == vector_store # None

\* bookkeeping of a call that starts
Start ==
    /\ ops < MaxOps
    /\ ops' = ops + 1

\* A new PDFProcessor (line 15-21)
NewEngine ==
    /\ vector_store = None
    /\ documents = <<>>
    /\ ingest = IngestIdle
    /\ load = LoadIdle
    /\ save = SaveIdle
    /\ query = QueryIdle
    /\ outcome = NoOutcome
    /\ published = {}
    /\ ops = 0

SegmenterOff ==
    /\ seg_pc = "off"
    /\ seg_text = <<>>
    /\ seg_chunks = <<>>
    /\ seg_directory = <<>>
    /\ seg_documents = <<>>

\* a request body of POST /api/chat: no JSON object at all, or an object
\* whose message and session_id are what data.get gives (line 35-37)
NoJson == [json |-> FALSE, message |-> <<>>, session_id |-> "default"]
\* a server thread between two requests: status is the answer to its last
\* request, body that request's body, and wrote tells whether that request
\* assigned to chat_sessions or appended to a history
ReqIdle ==
    [pc |-> "idle", body |-> NoJson, chat_history |-> 0, text |-> "",
     status |-> 0, wrote |-> FALSE]
Threads == {1, 2}
SessionIds == {"default", "s2"}
\* structured data: none (no file, line 21), or the resume's JSON object
NoData == [kind |-> "none", technical |-> <<>>]

\* no chat service: app.py is not running, so there are no sessions and no
\* server threads
ChatOff ==
    /\ structured_data = NoData
    /\ chat_pc = "off"
    /\ chat_sessions = <<>>
    /\ heap = <<>>
    /\ req = <<>>
    /\ chat_log = <<>>

\* The storage path is empty or holds the store an earlier run persisted.
Init ==
    /\ NewEngine
    /\ \E stored \in Corpora \cup {<<>>} :
        IF stored = <<>>
        THEN disk_index = Missing /\ disk_docs = Missing
        ELSE disk_index = File(encode(stored)) /\ disk_docs = File(stored)
    /\ SegmenterOff
    /\ ChatOff

(***************************************************************************)
(* PDFProcessor.create_vector_store(documents)                             *)
(***************************************************************************)
\* line 202-203: an empty list raises ValueError("No documents provided")
create_vector_store_empty ==
    /\ ingest.pc = "idle"
    /\ Start
    /\ outcome' = Raised("ingest", ops', "NoDocuments")
    /\ UNCHANGED <<chatvars, segvars, vector_store, documents, disk_index, disk_docs, ingest,
                   load, save, query, published>>

\* line 202, 205: self.documents = documents
create_vector_store_begin ==
    /\ ingest.pc = "idle"
    /\ Start
    /\ \E docs \in Corpora :
        /\ ingest' = [pc |-> "encode", docs |-> docs, emb |-> <<>>, seq |-> ops',
                   before |-> <<vector_store, documents>>]
        /\ documents' = docs
    /\ UNCHANGED <<chatvars, segvars, vector_store, disk_index, disk_docs, load, save, query,
                   outcome, published>>

\* line 208-212: embeddings = self.embeddings.encode(texts)
create_vector_store_encode ==
    /\ ingest.pc = "encode"
    /\ ingest' = [ingest EXCEPT !.pc = "index", !.emb = encode(ingest.docs)]
    /\ UNCHANGED <<chatvars, segvars, vector_store, documents, disk_index, disk_docs, load, save,
                   query, outcome, published, ops>>

\* line 212: the embedder raises; the exception leaves create_vector_store
create_vector_store_encode_fails ==
    /\ ingest.pc = "encode"
    /\ ingest' = IngestIdle
    /\ outcome' = Raised("ingest", ingest.seq, "EmbedderFailure")
    /\ UNCHANGED <<chatvars, segvars, vector_store, documents, disk_index, disk_docs, load, save,
                   query, published, ops>>

\* line 215-216: self.vector_store = faiss.IndexFlatL2(dimension)
create_vector_store_index ==
    /\ ingest.pc = "index"
    /\ vector_store' = Some(IndexFlatL2)
    /\ ingest' = [ingest EXCEPT !.pc = "add"]
    /\ UNCHANGED <<chatvars, segvars, documents, disk_index, disk_docs, load, save, query,
                   outcome, published, ops>>

\* line 217: self.vector_store.add(embeddings), on the object the attribute
\* holds now
create_vector_store_add ==
    /\ ingest.pc = "add"
    /\ vector_store' = Some(IndexAdd(Val(vector_store), ingest.emb))
    /\ published' = published \cup {<<Some(ingest.emb), ingest.docs>>}
    /\ outcome' = Returned("ingest", ingest.seq)
    /\ ingest' = IngestIdle
    /\ UNCHANGED <<chatvars, segvars, documents, disk_index, disk_docs, load, save, query, ops>>

(***************************************************************************)
(* PDFProcessor.save_vector_store(path)                                    *)
(***************************************************************************)
\* line 223-224: raise ValueError("Vector store not initialized")
save_vector_store_not_initialized ==
    /\ save.pc = "idle"
    /\ Start
    /\ vector_store = None
    /\ outcome' = Raised("save", ops', "NotInitialized")
    /\ UNCHANGED <<chatvars, segvars, vector_store, documents, disk_index, disk_docs, ingest,
                   load, save, query, published>>

\* line 223, 226: the store exists; os.makedirs(path, exist_ok=True)
save_vector_store_begin ==
    /\ save.pc = "idle"
    /\ Start
    /\ vector_store # None
    /\ save' = [pc |-> "write_index", seq |-> ops']
    /\ UNCHANGED <<chatvars, segvars, vector_store, documents, disk_index, disk_docs, ingest,
                   load, query, outcome, published>>

\* a variant: the engine gives its index away when it writes it
save_vector_store_write_index_releases ==
    /\ save.pc = "write_index"
    /\ disk_index' = WrittenBy(File(Val(vector_store)), save.seq)
    /\ vector_store' = Some(IndexFlatL2)
    /\ save' = [save EXCEPT !.pc = "write_docs"]
    /\ UNCHANGED <<chatvars, segvars, documents, disk_docs, ingest, load, query,
                   outcome, published, ops>>

\* line 229: faiss.write_index(self.vector_store, .../index.faiss)
save_vector_store_write_index ==
    /\ save.pc = "write_index"
    /\ disk_index' = WrittenBy(File(Val(vector_store)), save.seq)
    /\ save' = [save EXCEPT !.pc = "write_docs"]
    /\ UNCHANGED <<chatvars, segvars, vector_store, documents, disk_docs, ingest, load, query,
                   outcome, published, ops>>

\* line 229: the write fails; the file is untouched or left incomplete
save_vector_store_write_index_fails ==
    /\ save.pc = "write_index"
    /\ disk_index' \in {disk_index, WrittenBy(Corrupt, save.seq)}
    /\ save' = SaveIdle
    /\ outcome' = Raised("save", save.seq, "IOError")
    /\ UNCHANGED <<chatvars, segvars, vector_store, documents, disk_docs, ingest, load, query,
                   published, ops>>

\* a variant: the last Document is not written
save_vector_store_write_docs_short ==
    /\ save.pc = "write_docs"
    /\ disk_docs' = WrittenBy(File(SubSeq(documents, 1, Len(documents) - 1)), save.seq)
    /\ save' = SaveIdle
    /\ outcome' = Returned("save", save.seq)
    /\ UNCHANGED <<chatvars, segvars, vector_store, documents, disk_index, ingest, load, query,
                   published, ops>>

\* line 232-233: pickle.dump(self.documents, f)
save_vector_store_write_docs ==
    /\ save.pc = "write_docs"
    /\ disk_docs' = WrittenBy(File(documents), save.seq)
    /\ save' = SaveIdle
    /\ outcome' = Returned("save", save.seq)
    /\ UNCHANGED <<chatvars, segvars, vector_store, documents, disk_index, ingest, load, query,
                   published, ops>>

\* line 232-233: open(..., "wb") or the dump fails; the file is untouched or
\* left truncated
save_vector_store_write_docs_fails ==
    /\ save.pc = "write_docs"
    /\ disk_docs' \in {disk_docs, WrittenBy(Corrupt, save.seq)}
    /\ save' = SaveIdle
    /\ outcome' = Raised("save", save.seq, "IOError")
    /\ UNCHANGED <<chatvars, segvars, vector_store, documents, disk_index, ingest, load, query,
                   published, ops>>

(***************************************************************************)
(* PDFProcessor.load_vector_store(path)                                    *)
(***************************************************************************)
\* line 242-243: raise ValueError("Vector store not found at ...")
load_vector_store_not_found ==
    /\ load.pc = "idle"
    /\ Start
    /\ (disk_index.state = "missing" \/ disk_docs.state = "missing")
    /\ outcome' = Raised("load", ops', "NotFound")
    /\ UNCHANGED <<chatvars, segvars, vector_store, documents, disk_index, disk_docs, ingest,
                   load, save, query, published>>

\* line 239-242: both artifacts exist
load_vector_store_begin ==
    /\ load.pc = "idle"
    /\ Start
    /\ ~(disk_index.state = "missing" \/ disk_docs.state = "missing")
    /\ load' = [pc |-> "read_index", index |-> None, docs |-> None, seq |-> ops',
                before |-> <<vector_store, documents>>, index_by |-> 0]
    /\ UNCHANGED <<chatvars, segvars, vector_store, documents, disk_index, disk_docs, ingest,
                   save, query, outcome, published>>

\* line 246: self.vector_store = faiss.read_index(index_path)
load_vector_store_read_index ==
    /\ load.pc = "read_index"
    /\ disk_index.state = "ok"
    /\ vector_store' = Some(disk_index.data)
    /\ load' = [load EXCEPT !.pc = "read_docs", !.index = Some(disk_index.data),
                            !.index_by = disk_index.by]
    /\ UNCHANGED <<chatvars, segvars, documents, disk_index, disk_docs, ingest, save, query,
                   outcome, published, ops>>

\* a variant: the failed read leaves the attribute empty
load_vector_store_read_index_clears ==
    /\ load.pc = "read_index"
    /\ disk_index.state # "ok"
    /\ vector_store' = None
    /\ load' = [load EXCEPT !.pc = "idle", !.before = LoadIdle.before,
                            !.index_by = 0]
    /\ outcome' = Raised("load", load.seq, "DeserializeError")
    /\ UNCHANGED <<chatvars, segvars, documents, disk_index, disk_docs, ingest,
                   save, query, published, ops>>

\* line 246: faiss.read_index raises on an artifact it cannot read
load_vector_store_read_index_fails ==
    /\ load.pc = "read_index"
    /\ disk_index.state # "ok"
    /\ load' = [load EXCEPT !.pc = "idle", !.before = LoadIdle.before,
                            !.index_by = 0]
    /\ outcome' = Raised("load", load.seq, "DeserializeError")
    /\ UNCHANGED <<chatvars, segvars, vector_store, documents, disk_index, disk_docs, ingest,
                   save, query, published, ops>>

\* line 249-250: self.documents = pickle.load(f)
load_vector_store_read_docs ==
    /\ load.pc = "read_docs"
    /\ disk_docs.state = "ok"
    /\ documents' = disk_docs.data
    /\ load' = [load EXCEPT !.pc = "idle", !.docs = Some(disk_docs.data),
                            !.before = LoadIdle.before,
                            !.index_by = 0]
    /\ published' = published \cup {<<load.index, disk_docs.data>>}
    /\ outcome' = Returned("load", load.seq)
    /\ UNCHANGED <<chatvars, segvars, vector_store, disk_index, disk_docs, ingest, save, query, ops>>

\* line 249-250: pickle.load raises on an artifact it cannot read
load_vector_store_read_docs_fails ==
    /\ load.pc = "read_docs"
    /\ disk_docs.state # "ok"
    /\ load' = [load EXCEPT !.pc = "idle", !.before = LoadIdle.before,
                            !.index_by = 0]
    /\ outcome' = Raised("load", load.seq, "DeserializeError")
    /\ UNCHANGED <<chatvars, segvars, vector_store, documents, disk_index, disk_docs, ingest,
                   save, query, published, ops>>

(***************************************************************************)
(* The chatbot engines' use of a query.  search is the outcome of          *)
(* search_similar_documents: [kind, error, results].                       *)
(***************************************************************************)
\* a variant: the exception is passed on
get_relevant_context_reraises(search) ==
    IF search.kind = "raise"
    THEN Layer("raise", search.error, "")
    ELSE Layer("return", "none",
               IF search.results = <<>> THEN "" ELSE "context")

\* ChatbotEngine.get_relevant_context and
\* EnhancedChatbotEngine.get_relevant_context: the context string built from
\* the retrieved chunks; every exception is caught and gives "".
get_relevant_context(search) ==
    IF search.kind = "raise"
    THEN Layer("return", "none", "")
    ELSE Layer("return", "none",
               IF search.results = <<>> THEN "" ELSE "context")

\* _generate_fallback_response: the fixed text when the context is blank
_generate_fallback_response(context) ==
    IF context = "" THEN "no_information" ELSE "found"

\* EnhancedChatbotEngine.generate_response for a message that has no
\* structured answer (ChatbotEngine.generate_response without an API key)
generate_response(search) ==
    LET context == get_relevant_context(search) IN
    IF context.kind = "raise"
    THEN Layer("return", "none", "apology")
    ELSE Layer("return", "none", _generate_fallback_response(context.text))

(***************************************************************************)
(* EnhancedChatbotEngine: the answer to a chat message.  structured data   *)
(* is NoData (no file, or an empty object), MalformedData (a file that     *)
(* holds no JSON object, so that .get raises) or a record of the resume;   *)
(* a formatter is modelled by the name of what it formats.                 *)
(***************************************************************************)
LowerChar(c) ==
    IF c \in UpperSet
    THEN LowerChars[CHOOSE i \in 1..26 : UpperChars[i] = c]
    ELSE c
\* str.lower
lower(s) == [i \in 1..Len(s) |-> LowerChar(s[i])]
\* any(word in s for word in words)
ContainsAny(s, words) == \E w \in 1..Len(words) : contains(s, words[w])

\* a file that holds a JSON list
MalformedData == [kind |-> "list", technical |-> <<>>]
\* structured_resume_data.json: skills.technical
ResumeData == [kind |-> "dict", technical |-> <<<<"P", "y", "t", "h", "o", "n">>, <<"R", "e", "a", "c", "t">>>>]

\* a formatter called on the data: self.structured_data.get raises
\* AttributeError on data that is no JSON object
Format(data, name) ==
    IF data.kind = "dict" THEN Layer("return", "none", name)
    ELSE Layer("raise", "AttributeError", "")

\* line 349-382: None when no skill of the data occurs in the message
_format_technology_specific_response(user_message, data) ==
    IF data.kind # "dict" THEN Layer("raise", "AttributeError", "")
    ELSE IF \E t \in 1..Len(data.technical) :
                contains(lower(user_message), lower(data.technical[t]))
         THEN Layer("return", "none", "technology")
         ELSE Layer("return", "none", "")

\* line 81-150: the answer from the structured data; the text "" stands for
\* None
_generate_structured_response(user_message, data) ==
    LET user_lower == strip(lower(user_message))
    IN
    IF data.kind = "none" THEN Layer("return", "none", "")
    ELSE IF user_lower = <<"w", "h", "o", " ", "i", "s", " ", "a", "d", "i", "t", "y", "a", "?">>
    THEN Format(data, "personal_info")
    ELSE IF user_lower = <<"t", "e", "c", "h", "n", "i", "c", "a", "l", " ", "s", "k", "i", "l", "l", "s">>
    THEN Format(data, "all_skills")
    ELSE IF user_lower = <<"p", "r", "o", "j", "e", "c", "t", "s">>
    THEN Format(data, "projects_info")
    ELSE IF user_lower = <<"c", "o", "n", "t", "a", "c", "t", " ", "i", "n", "f", "o">>
    THEN Format(data, "contact_info")
    ELSE IF ContainsAny(user_lower, <<
            <<"c", "o", "n", "t", "a", "c", "t">>,
            <<"e", "m", "a", "i", "l">>, <<"p", "h", "o", "n", "e">>,
            <<"r", "e", "a", "c", "h">>,
            <<"a", "d", "d", "r", "e", "s", "s">>>>)
    THEN Format(data, "contact_info")
    ELSE IF ContainsAny(user_lower, <<
            <<"p", "r", "o", "j", "e", "c", "t">>,
            <<"p", "o", "r", "t", "f", "o", "l", "i", "o">>,
            <<"b", "u", "i", "l", "t">>,
            <<"d", "e", "v", "e", "l", "o", "p", "e", "d">>,
            <<"c", "r", "e", "a", "t", "e", "d">>,
            <<"a", "p", "p", "l", "i", "c", "a", "t", "i", "o", "n">>>>)
    THEN Format(data, "projects_info")
    ELSE IF ContainsAny(user_lower, <<
            <<"w", "h", "o">>, <<"a", "b", "o", "u", "t">>,
            <<"p", "r", "o", "f", "i", "l", "e">>,
            <<"s", "u", "m", "m", "a", "r", "y">>>>)
            /\ ~ContainsAny(user_lower, <<
            <<"p", "r", "o", "j", "e", "c", "t">>,
            <<"s", "k", "i", "l", "l">>,
            <<"e", "d", "u", "c", "a", "t", "i", "o", "n">>,
            <<"e", "x", "p", "e", "r", "i", "e", "n", "c", "e">>>>)
    THEN Format(data, "personal_info")
    ELSE IF contains(user_lower, <<"t", "e", "l", "l", " ", "m", "e", " ", "a", "b", "o", "u", "t">>)
    THEN IF ContainsAny(user_lower, <<
            <<"p", "r", "o", "j", "e", "c", "t">>,
            <<"b", "u", "i", "l", "t">>,
            <<"d", "e", "v", "e", "l", "o", "p", "e", "d">>>>)
         THEN Format(data, "projects_info")
         ELSE IF ContainsAny(user_lower, <<
            <<"s", "k", "i", "l", "l">>,
            <<"t", "e", "c", "h", "n", "o", "l", "o", "g", "y">>>>)
         THEN Format(data, "all_skills")
         ELSE IF ContainsAny(user_lower, <<
            <<"e", "d", "u", "c", "a", "t", "i", "o", "n">>,
            <<"s", "t", "u", "d", "y">>>>)
         THEN Format(data, "education_info")
         ELSE Format(data, "personal_info")
    ELSE IF ContainsAny(user_lower, <<
            <<"e", "d", "u", "c", "a", "t", "i", "o", "n">>,
            <<"d", "e", "g", "r", "e", "e">>,
            <<"u", "n", "i", "v", "e", "r", "s", "i", "t", "y">>,
            <<"c", "o", "l", "l", "e", "g", "e">>,
            <<"s", "t", "u", "d", "y">>,
            <<"a", "c", "a", "d", "e", "m", "i", "c">>>>)
    THEN Format(data, "education_info")
    ELSE IF ContainsAny(user_lower, <<
            <<"s", "k", "i", "l", "l">>,
            <<"t", "e", "c", "h", "n", "o", "l", "o", "g", "y">>,
            <<"p", "r", "o", "g", "r", "a", "m", "m", "i", "n", "g">>,
            <<"l", "a", "n", "g", "u", "a", "g", "e">>,
            <<"t", "o", "o", "l">>,
            <<"t", "e", "c", "h", " ", "s", "t", "a", "c", "k">>>>)
    THEN IF ContainsAny(user_lower, <<
            <<"t", "e", "c", "h", "n", "i", "c", "a", "l">>,
            <<"p", "r", "o", "g", "r", "a", "m", "m", "i", "n", "g">>,
            <<"c", "o", "d", "i", "n", "g">>,
            <<"l", "a", "n", "g", "u", "a", "g", "e">>>>)
         THEN Format(data, "technical_skills")
         ELSE IF ContainsAny(user_lower, <<
            <<"t", "o", "o", "l">>, <<"a", "i">>,
            <<"p", "l", "a", "t", "f", "o", "r", "m">>>>)
         THEN Format(data, "tools_skills")
         ELSE Format(data, "all_skills")
    ELSE IF ContainsAny(user_lower, <<
            <<"e", "x", "p", "e", "r", "i", "e", "n", "c", "e">>,
            <<"w", "o", "r", "k">>, <<"j", "o", "b">>,
            <<"e", "m", "p", "l", "o", "y", "m", "e", "n", "t">>,
            <<"c", "a", "r", "e", "e", "r">>>>)
    THEN Format(data, "experience_info")
    ELSE IF ContainsAny(user_lower, <<
            <<"c", "e", "r", "t", "i", "f", "i", "c", "a", "t", "i", "o", "n">>,
            <<"c", "e", "r", "t", "i", "f", "i", "e", "d">>,
            <<"c", "e", "r", "t", "i", "f", "i", "c", "a", "t", "e">>,
            <<"c", "r", "e", "d", "e", "n", "t", "i", "a", "l">>>>)
    THEN Format(data, "certifications_info")
    ELSE IF ContainsAny(user_lower, <<
            <<"a", "c", "h", "i", "e", "v", "e", "m", "e", "n", "t">>,
            <<"a", "w", "a", "r", "d">>,
            <<"h", "a", "c", "k", "a", "t", "h", "o", "n">>,
            <<"w", "i", "n", "n", "e", "r">>,
            <<"a", "c", "c", "o", "m", "p", "l", "i", "s", "h", "m", "e", "n", "t">>>>)
    THEN Format(data, "achievements_info")
    ELSE IF ContainsAny(user_lower, <<
            <<"r", "e", "a", "c", "t">>,
            <<"j", "a", "v", "a", "s", "c", "r", "i", "p", "t">>,
            <<"p", "y", "t", "h", "o", "n">>, <<"h", "t", "m", "l">>,
            <<"c", "s", "s">>, <<"m", "o", "n", "g", "o", "d", "b">>,
            <<"m", "y", "s", "q", "l">>>>)
    THEN _format_technology_specific_response(user_message, data)
    ELSE Layer("return", "none", "")

Hello == <<"h", "e", "l", "l", "o">>
TellExperience ==
    <<"t", "e", "l", "l", " ", "m", "e", " ", "a", "b", "o", "u", "t", " ",
      "y", "o", "u", "r", " ", "e", "x", "p", "e", "r", "i", "e", "n", "c",
      "e">>
\* the messages sent to the chat
ChatMessages ==
    {Hello, TellExperience,
     <<"W", "h", "o", " ", "i", "s", " ", "A", "d", "i", "t", "y", "a",
       "?">>,
     <<"t", "e", "l", "l", " ", "m", "e", " ", "a", "b", "o", "u", "t",
       " ", "y", "o", "u", "r", " ", "s", "k", "i", "l", "l", "s">>,
     <<"t", "e", "l", "l", " ", "m", "e", " ", "a", "b", "o", "u", "t",
       " ", "y", "o", "u", "r", "s", "e", "l", "f">>,
     <<"a", "b", "o", "u", "t", " ", "t", "h", "e", " ", "p", "r", "o",
       "j", "e", "c", "t", "s">>,
     <<"w", "h", "a", "t", " ", "w", "a", "s", " ", "y", "o", "u", "r",
       " ", "l", "a", "s", "t", " ", "j", "o", "b">>,
     <<"w", "h", "a", "t", " ", "i", "s", " ", "y", "o", "u", "r", " ",
       "e", "m", "a", "i", "l">>,
     <<"w", "h", "i", "c", "h", " ", "d", "e", "g", "r", "e", "e">>,
     <<"w", "h", "i", "c", "h", " ", "t", "o", "o", "l", " ", "d", "o",
       " ", "y", "o", "u", " ", "l", "i", "k", "e">>,
     <<"p", "r", "o", "g", "r", "a", "m", "m", "i", "n", "g">>,
     <<"a", "n", "y", " ", "a", "w", "a", "r", "d">>,
     <<"a", "r", "e", " ", "y", "o", "u", " ", "c", "e", "r", "t", "i",
       "f", "i", "e", "d">>,
     <<"d", "o", " ", "y", "o", "u", " ", "u", "s", "e", " ", "c", "s",
       "s">>,
     <<"d", "o", " ", "y", "o", "u", " ", "u", "s", "e", " ", "p", "y",
       "t", "h", "o", "n">>}

\* a variant: an exception of the structured answer is passed on
EnhancedChatbotEngine_generate_response_reraises(user_message, data, search) ==
    LET structured_response == _generate_structured_response(user_message, data)
    IN IF structured_response.kind = "raise" THEN structured_response
       ELSE IF structured_response.text # "" THEN structured_response
       ELSE generate_response(search)

\* line 65-79: the structured answer when there is one, else the answer from
\* the retrieved context; every exception gives the apology
EnhancedChatbotEngine_generate_response(user_message, data, search) ==
    LET structured_response == _generate_structured_response(user_message, data)
    IN IF structured_response.kind = "raise"
       THEN Layer("return", "none", "apology")
       ELSE IF structured_response.text # "" THEN structured_response
       ELSE generate_response(search)

(***************************************************************************)
(* PDFProcessor.search_similar_documents(query, k)                         *)
(***************************************************************************)
QueryOutcome(q, kind, error, results) ==
    LET search == [kind |-> kind, error |-> error, results |-> results] IN
    [op |-> "query", kind |-> kind, error |-> error, results |-> results,
     encodes |-> q.encoded, seq |-> q.seq,
     context |-> get_relevant_context(search),
     response |-> generate_response(search)]
QueryRaises(q, error) == QueryOutcome(q, "raise", error, <<>>)
QueryReturns(q, results) == QueryOutcome(q, "return", "none", results)

NewQuery(text, k, seq) ==
    [pc |-> "encode", text |-> text, k |-> k,
     indices |-> <<>>, seen_index |-> None, seen_docs |-> None,
     results |-> <<>>, encoded |-> 0, seq |-> seq]

\* a variant: no store gives an empty result instead of an error
search_similar_documents_not_initialized_empty ==
    /\ query.pc = "idle"
    /\ Start
    /\ vector_store = None
    /\ \E text \in Texts, k \in 1..MaxK :
        outcome' = QueryReturns(NewQuery(text, k, ops'), <<>>)
    /\ UNCHANGED <<chatvars, segvars, vector_store, documents, disk_index, disk_docs,
                   ingest, load, save, query, published>>

\* line 256-257: raise ValueError("Vector store not initialized")
search_similar_documents_not_initialized ==
    /\ query.pc = "idle"
    /\ Start
    /\ vector_store = None
    /\ \E text \in Texts, k \in 1..MaxK :
        outcome' = QueryRaises(NewQuery(text, k, ops'), "NotInitialized")
    /\ UNCHANGED <<chatvars, segvars, vector_store, documents, disk_index, disk_docs, ingest,
                   load, save, query, published>>

\* line 256: the store exists
search_similar_documents_begin ==
    /\ query.pc = "idle"
    /\ Start
    /\ vector_store # None
    /\ \E text \in Texts, k \in 1..MaxK :
        query' = NewQuery(text, k, ops')
    /\ UNCHANGED <<chatvars, segvars, vector_store, documents, disk_index, disk_docs, ingest,
                   load, save, outcome, published>>

\* line 260: query_embedding = self.embeddings.encode([query])
search_similar_documents_encode ==
    /\ query.pc = "encode"
    /\ query' = [query EXCEPT !.pc = "search", !.encoded = @ + 1]
    /\ UNCHANGED <<chatvars, segvars, vector_store, documents, disk_index, disk_docs, ingest,
                   load, save, outcome, published, ops>>

\* line 260: the embedder raises
search_similar_documents_encode_fails ==
    /\ query.pc = "encode"
    /\ outcome' =
            QueryRaises([query EXCEPT !.encoded = @ + 1], "EmbedderFailure")
    /\ query' = QueryIdle
    /\ UNCHANGED <<chatvars, segvars, vector_store, documents, disk_index, disk_docs, ingest,
                   load, save, published, ops>>

\* line 263: distances, indices = self.vector_store.search(query_embedding, k)
search_similar_documents_search ==
    /\ query.pc = "search"
    /\ query' = [query EXCEPT
            !.pc = "map",
            !.seen_index = vector_store,
            !.indices = IndexSearch(Val(vector_store), EncodeOne(query.text),
                                    query.k)]
    /\ UNCHANGED <<chatvars, segvars, vector_store, documents, disk_index, disk_docs, ingest,
                   load, save, outcome, published, ops>>

\* a variant: the identifier is only tested against the upper end of the
\* list, so that the padding identifier -1 selects the last Document
search_similar_documents_map_no_lower_bound ==
    /\ query.pc = "map"
    /\ query.indices # <<>>
    /\ LET idx == Head(query.indices) IN
        query' = [query EXCEPT
            !.indices = Tail(@),
            !.seen_docs = Some(documents),
            !.results = IF idx < Len(documents) /\ documents # <<>>
                        THEN Append(@, documents[IF idx >= 0 THEN idx + 1
                                                 ELSE Len(documents)])
                        ELSE @]
    /\ UNCHANGED <<chatvars, segvars, vector_store, documents, disk_index, disk_docs, ingest,
                   load, save, outcome, published, ops>>

\* line 267-269: one iteration of the loop over indices[0]
search_similar_documents_map ==
    /\ query.pc = "map"
    /\ query.indices # <<>>
    /\ LET idx == Head(query.indices) IN
        query' = [query EXCEPT
            !.indices = Tail(@),
            !.seen_docs = Some(documents),
            !.results = IF 0 <= idx /\ idx < Len(documents)
                        THEN Append(@, documents[idx + 1])
                        ELSE @]
    /\ UNCHANGED <<chatvars, segvars, vector_store, documents, disk_index, disk_docs, ingest,
                   load, save, outcome, published, ops>>

\* line 271: return results
search_similar_documents_return ==
    /\ query.pc = "map"
    /\ query.indices = <<>>
    /\ outcome' =
            QueryReturns(query, query.results)
    /\ query' = QueryIdle
    /\ UNCHANGED <<chatvars, segvars, vector_store, documents, disk_index, disk_docs, ingest,
                   load, save, published, ops>>

Next ==
    \/ create_vector_store_empty
    \/ create_vector_store_begin
    \/ create_vector_store_encode
    \/ create_vector_store_encode_fails
    \/ create_vector_store_index
    \/ create_vector_store_add
    \/ save_vector_store_not_initialized
    \/ save_vector_store_begin
    \/ save_vector_store_write_index
    \/ save_vector_store_write_index_fails
    \/ save_vector_store_write_docs
    \/ save_vector_store_write_docs_fails
    \/ load_vector_store_not_found
    \/ load_vector_store_begin
    \/ load_vector_store_read_index
    \/ load_vector_store_read_index_fails
    \/ load_vector_store_read_docs
    \/ load_vector_store_read_docs_fails
    \/ search_similar_documents_not_initialized
    \/ search_similar_documents_begin
    \/ search_similar_documents_encode
    \/ search_similar_documents_encode_fails
    \/ search_similar_documents_search
    \/ search_similar_documents_map
    \/ search_similar_documents_return

Spec == Init /\ [][Next]_vars

(***************************************************************************)
(* The engine used by one caller at a time, over restarts of the process:  *)
(* a call starts when no call is in flight, and a new PDFProcessor takes   *)
(* the place of the old one while the storage path keeps its artifacts.    *)
(***************************************************************************)
InitSeq ==
    /\ NewEngine
    /\ disk_index = Missing
    /\ disk_docs = Missing
    /\ SegmenterOff
    /\ ChatOff

\* line 15-21: PDFProcessor() in a process started after the one that called
\* save_vector_store has ended
new_engine ==
    /\ Busy = 0
    /\ outcome.op = "save"
    /\ vector_store' = None
    /\ documents' = <<>>
    /\ outcome' = NoOutcome
    /\ published' = {}
    /\ ops' = 0
    /\ disk_index' = WrittenBy(disk_index, 0)
    /\ disk_docs' = WrittenBy(disk_docs, 0)
    /\ UNCHANGED <<chatvars, segvars, ingest, load, save, query>>

\* a call starts only when no call is in flight
NextSeq ==
    \/ Busy = 0 /\ create_vector_store_empty
    \/ Busy = 0 /\ create_vector_store_begin
    \/ Busy = 0 /\ save_vector_store_not_initialized
    \/ Busy = 0 /\ save_vector_store_begin
    \/ Busy = 0 /\ load_vector_store_not_found
    \/ Busy = 0 /\ load_vector_store_begin
    \/ Busy = 0 /\ search_similar_documents_not_initialized
    \/ Busy = 0 /\ search_similar_documents_begin
    \/ create_vector_store_encode
    \/ create_vector_store_encode_fails
    \/ create_vector_store_index
    \/ create_vector_store_add
    \/ save_vector_store_write_index
    \/ save_vector_store_write_index_fails
    \/ save_vector_store_write_docs
    \/ save_vector_store_write_docs_fails
    \/ load_vector_store_read_index
    \/ load_vector_store_read_index_fails
    \/ load_vector_store_read_docs
    \/ load_vector_store_read_docs_fails
    \/ search_similar_documents_encode
    \/ search_similar_documents_encode_fails
    \/ search_similar_documents_search
    \/ search_similar_documents_map
    \/ search_similar_documents_return
    \/ new_engine

SpecSeq == InitSeq /\ [][NextSeq]_vars

(***************************************************************************)
(* The engine with its threads scheduled fairly.  A thread that is inside  *)
(* a call takes its next step, except where the step is the answer of a    *)
(* collaborator: self.embeddings.encode (lines 212, 260) is called without *)
(* a timeout, so the threads wait for the embedder as long as it takes,    *)
(* and nothing obliges the embedder to answer.                             *)
(***************************************************************************)
SpecLive ==
    /\ Init
    /\ [][Next]_vars
    /\ WF_vars(create_vector_store_index \/ create_vector_store_add)
    /\ WF_vars(\/ save_vector_store_write_index
               \/ save_vector_store_write_index_fails
               \/ save_vector_store_write_docs
               \/ save_vector_store_write_docs_fails)
    /\ WF_vars(\/ load_vector_store_read_index
               \/ load_vector_store_read_index_fails
               \/ load_vector_store_read_docs
               \/ load_vector_store_read_docs_fails)
    /\ WF_vars(\/ search_similar_documents_search
               \/ search_similar_documents_map
               \/ search_similar_documents_return)

(***************************************************************************)
(* The segmenter on its own: split_text on one text, or                    *)
(* process_pdfs_from_directory on one directory.                           *)
(***************************************************************************)
\* the embedder on the chunks of Documents: one coordinate per chunk
encode_chunks(docs) == [i \in 1..Len(docs) |-> Len(docs[i].page_content)]

\* the Documents of a store built by an earlier ingest
PriorDocuments == <<Document(Phrase56, <<"o", "l", "d", ".", "p", "d", "f">>, 0, 1)>>

\* A new engine and an empty path, or for an ingest also an engine that
\* holds, as the path does, the store of an earlier ingest.
InitSplit ==
    /\ ChatOff
    /\ ingest = IngestIdle
    /\ load = LoadIdle
    /\ save = SaveIdle
    /\ query = QueryIdle
    /\ outcome = NoOutcome
    /\ ops = 0
    /\ seg_chunks = <<>>
    /\ seg_documents = <<>>
    /\ \/ /\ seg_pc \in {"text", "retrain"}
          /\ seg_text \in SplitInputs
          /\ seg_directory = <<>>
          /\ vector_store = None /\ documents = <<>> /\ published = {}
          /\ disk_index = Missing /\ disk_docs = Missing
       \/ /\ seg_pc = "directory"
          /\ seg_text = <<>>
          /\ seg_directory \in Directories
          /\ vector_store = None /\ documents = <<>> /\ published = {}
          /\ disk_index = Missing /\ disk_docs = Missing
       \/ /\ seg_pc \in {"create", "initialize"}
          /\ seg_text = <<>>
          /\ seg_directory \in Directories
          /\ \/ /\ vector_store = None /\ documents = <<>> /\ published = {}
                /\ disk_index = Missing /\ disk_docs = Missing
             \/ /\ vector_store = Some(encode_chunks(PriorDocuments))
                /\ documents = PriorDocuments
                /\ published = {<<vector_store, documents>>}
                /\ disk_index = File(encode_chunks(PriorDocuments))
                /\ disk_docs = File(PriorDocuments)

split_text_call ==
    /\ seg_pc = "text"
    /\ seg_chunks' = split_text(seg_text)
    /\ seg_pc' = "done"
    /\ UNCHANGED <<chatvars, enginevars, seg_text, seg_directory, seg_documents>>

\* process_pdfs_from_directory called on its own, or as the first statement
\* of an ingest (chatbot_engine.py line 24)
process_pdfs_from_directory_call ==
    /\ seg_pc \in {"directory", "create", "initialize"}
    /\ seg_documents' = process_pdfs_from_directory(seg_directory)
    /\ seg_pc' = CASE seg_pc = "directory" -> "done"
                  [] seg_pc = "create" -> "create_store"
                  [] seg_pc = "initialize" -> "initialize_store"
    /\ UNCHANGED <<chatvars, enginevars, seg_text, seg_chunks, seg_directory>>

\* retrain_improved.py line 37-59: the chunks and Documents of retrain_chatbot
retrain_documents_call ==
    /\ seg_pc = "retrain"
    /\ seg_documents' = retrain_documents(seg_text)
    /\ seg_pc' = "retrained"
    /\ UNCHANGED <<chatvars, enginevars, seg_text, seg_chunks, seg_directory>>

\* pdf_processor.py line 200-219: create_vector_store(documents) run to its
\* end by one caller, documents being what process_pdfs_from_directory gave
create_vector_store_call ==
    /\ seg_pc = "create_store"
    /\ seg_pc' = "created"
    /\ ops' = ops + 1
    /\ IF seg_documents = <<>>
       THEN /\ outcome' = Raised("ingest", ops', "NoDocuments")
            /\ UNCHANGED <<vector_store, documents, published>>
       ELSE /\ documents' = seg_documents
            /\ \/ /\ vector_store' =
                        Some(IndexAdd(IndexFlatL2, encode_chunks(seg_documents)))
                   /\ published' = published \cup {<<vector_store', seg_documents>>}
                   /\ outcome' = Returned("ingest", ops')
                \/ /\ outcome' = Raised("ingest", ops', "EmbedderFailure")
                   /\ UNCHANGED <<vector_store, published>>
    /\ UNCHANGED <<chatvars, disk_index, disk_docs, ingest, load, save, query, seg_text,
                   seg_chunks, seg_directory, seg_documents>>

\* a variant: a directory without Documents gives an empty store
initialize_from_pdfs_call_empty_store ==
    /\ seg_pc = "initialize_store"
    /\ seg_pc' = "initialized"
    /\ ops' = ops + 1
    /\ documents' = seg_documents
    /\ vector_store' = Some(IndexAdd(IndexFlatL2, encode_chunks(seg_documents)))
    /\ published' = published \cup {<<vector_store', seg_documents>>}
    /\ outcome' = Returned("ingest", ops')
    /\ UNCHANGED <<chatvars, disk_index, disk_docs, ingest, load, save, query, seg_text,
                   seg_chunks, seg_directory, seg_documents>>

\* chatbot_engine.py line 26-36, enhanced_chatbot_engine.py line 50-58:
\* initialize_from_pdfs(pdf_directory, vector_store_path) from the Documents
\* of the directory on, run to its end by one caller: the test for no
\* Documents, create_vector_store, and save_vector_store when a path is given
initialize_from_pdfs_call ==
    /\ seg_pc = "initialize_store"
    /\ seg_pc' = "initialized"
    /\ ops' = ops + 1
    /\ IF seg_documents = <<>>
       THEN /\ outcome' = Raised("ingest", ops', "NoDocuments")
            /\ UNCHANGED <<vector_store, documents, published, disk_index,
                           disk_docs>>
       ELSE /\ documents' = seg_documents
            /\ \/ /\ outcome' = Raised("ingest", ops', "EmbedderFailure")
                   /\ UNCHANGED <<vector_store, published, disk_index, disk_docs>>
                \/ /\ vector_store' =
                        Some(IndexAdd(IndexFlatL2, encode_chunks(seg_documents)))
                   /\ published' = published \cup {<<vector_store', seg_documents>>}
                   /\ \/ /\ outcome' = Returned("ingest", ops')
                         /\ UNCHANGED <<disk_index, disk_docs>>
                      \/ /\ outcome' = Returned("ingest", ops')
                         /\ disk_index' = WrittenBy(File(Val(vector_store')), ops')
                         /\ disk_docs' = WrittenBy(File(seg_documents), ops')
                      \/ /\ outcome' = Raised("ingest", ops', "IOError")
                         /\ disk_index' \in {disk_index, WrittenBy(Corrupt, ops')}
                         /\ UNCHANGED disk_docs
                      \/ /\ outcome' = Raised("ingest", ops', "IOError")
                         /\ disk_index' = WrittenBy(File(Val(vector_store')), ops')
                         /\ disk_docs' \in {disk_docs, WrittenBy(Corrupt, ops')}
    /\ UNCHANGED <<chatvars, ingest, load, save, query, seg_text, seg_chunks,
                   seg_directory, seg_documents>>

NextSplit ==
    \/ split_text_call
    \/ process_pdfs_from_directory_call
    \/ retrain_documents_call
    \/ create_vector_store_call
    \/ initialize_from_pdfs_call

SpecSplit == InitSplit /\ [][NextSplit]_vars

(***************************************************************************)
(* Properties of the retrieval engine, checked under Spec.                 *)
(***************************************************************************)
\* C1: a query concurrent with a re-ingest or a load reads a pair
\* (vector_store, documents) that is one published pair: the index it
\* searched and the Document list it maps identifiers with were published
\* together by one finished ingest or load.
C1_QuerySeesOnePublishedPair ==
    query.seen_docs # None =>
        <<query.seen_index, Val(query.seen_docs)>> \in published

\* C2: whenever no operation is in flight and the engine is Ready, the index
\* holds one vector per Document of self.documents, and identifier i is the
\* vector of the i-th Document.
C2_IndexMatchesDocuments ==
    (Busy = 0 /\ Ready) => Val(vector_store) = encode(documents)

\* C3: an ingest that started on a Ready engine and fails in the embedder
\* leaves vector_store and documents as they were when it started (no load
\* has run, so nothing else writes them).
C3_FailedIngestKeepsPublished ==
    [][(/\ ingest.pc = "encode"
        /\ ingest'.pc = "idle"
        /\ ingest.before[1] # None
        /\ load = LoadIdle)
       => (/\ vector_store' = ingest.before[1]
           /\ documents' = ingest.before[2])]_vars

\* C4: the engine starts Uninitialized, an ingest or load that returns
\* normally leaves it Ready, and no step takes a Ready engine back to
\* Uninitialized.
C4_ReadyNeverReverts ==
    /\ ~Ready
    /\ [][/\ Ready => vector_store' # None
          /\ (/\ outcome' # outcome
              /\ outcome'.op \in {"ingest", "load"}
              /\ outcome'.kind = "return") => vector_store' # None]_vars

\* C4 witness: a Ready engine on which an ingest or a load has just failed
C4_Witness ==
    /\ Ready
    /\ outcome.op \in {"ingest", "load"}
    /\ outcome.kind = "raise"
    /\ outcome.error \in {"EmbedderFailure", "DeserializeError"}

\* C5: a load that returns normally has read an index artifact and a
\* Document-mapping artifact with the same number of entries.
C5_LoadRejectsMismatch ==
    (outcome.op = "load" /\ outcome.kind = "return" /\ load.pc = "idle")
        => Len(Val(load.index)) = Len(Val(load.docs))

C7_FailuresPropagate ==
    (outcome.op = "query" /\ outcome.kind = "raise")
        => (/\ outcome.context.kind = "raise"
            /\ outcome.context.error = outcome.error
            /\ outcome.response.kind = "raise"
            /\ outcome.response.error = outcome.error)

\* C7 as amended: a failure raised by search_similar_documents is caught by
\* get_relevant_context, which returns the empty context as a normal result,
\* generate_response returns normally too, and the embedder was called at
\* most once.
C7_FailuresAbsorbed ==
    (outcome.op = "query" /\ outcome.kind = "raise")
        => (/\ outcome.context = Layer("return", "none", "")
            /\ outcome.response.kind = "return"
            /\ outcome.encodes <= 1)

\* C7 witness: the embedder has failed in a query on a Ready engine
C7_Witness ==
    /\ Ready
    /\ outcome.op = "query"
    /\ outcome.error = "EmbedderFailure"
    /\ outcome.encodes = 1

\* the step in which search_similar_documents returns its results
QueryReturnStep ==
    /\ query.pc = "map"
    /\ query.indices = <<>>
    /\ query'.pc = "idle"

\* C13: a search over an index of n entries returns Documents in
\* non-decreasing distance to the query, and for k >= n the result holds each
\* of the n indexed Documents (the Documents whose vectors the index holds)
\* exactly once: no duplicate, none missing, nothing for a padding identifier.
C13_SearchOrderedAndComplete ==
    [][QueryReturnStep =>
        LET index == Val(query.seen_index)
            qv == EncodeOne(query.text)
            res == query.results
        IN /\ \A i \in 1..(Len(res) - 1) :
                  Dist(EncodeOne(res[i]), qv) <= Dist(EncodeOne(res[i + 1]), qv)
           /\ query.k >= Len(index) =>
                  /\ Len(res) = Len(index)
                  /\ \A j \in 1..Len(index) :
                        Cardinality({i \in 1..Len(res) :
                                        EncodeOne(res[i]) = index[j]}) = 1]_vars

\* C14: a query on a Ready engine returns at most k Documents: the index
\* returns k identifiers, the loop takes them in that order, appends for an
\* identifier the Document at that position of self.documents and nothing
\* for an identifier that is no position, and the list built this way is
\* what the caller gets.
C14_ResultsFollowIdentifiers ==
    [][/\ (query.pc = "search" /\ query'.pc = "map") =>
            /\ Len(query'.indices) = query.k
            /\ query'.results = <<>>
       /\ (query.pc = "map" /\ query'.pc = "map" /\ query' # query) =>
            LET idx == Head(query.indices) IN
            /\ query'.indices = Tail(query.indices)
            /\ Len(query'.results) + Len(query'.indices) <= query.k
            /\ query'.results =
                    IF idx \in 0..(Len(documents) - 1)
                    THEN Append(query.results, documents[idx + 1])
                    ELSE query.results
       /\ QueryReturnStep =>
            /\ outcome'.op = "query"
            /\ outcome'.kind = "return"
            /\ outcome'.results = query.results
            /\ Len(outcome'.results) <= query.k]_vars

\* C14 witness: a query has returned two Documents
C14_Witness ==
    /\ outcome.op = "query"
    /\ outcome.kind = "return"
    /\ Len(outcome.results) = 2

(***************************************************************************)
(* Properties of the engine used by one caller at a time, checked under    *)
(* SpecSeq.                                                                *)
(***************************************************************************)
\* search_similar_documents(text, k) on an engine holding (index, docs), no
\* other call running
search_results(index, docs, text, k) ==
    LET ids == IndexSearch(index, EncodeOne(text), k)
        hits == SelectSeq(ids, LAMBDA id : 0 <= id /\ id < Len(docs))
    IN [i \in 1..Len(hits) |-> docs[hits[i] + 1]]

\* C15: when save_vector_store has returned normally, the artifacts of the
\* path are the engine's vectors and its Document sequence; when
\* load_vector_store has returned normally, also on a new engine, the engine
\* holds the vectors and the Document sequence of the artifacts; so the
\* engine that saved and the engine that loaded answer every query and k
\* with the same ordered result.
C15_RoundTrip ==
    (/\ Busy = 0
     /\ outcome.op \in {"save", "load"}
     /\ outcome.kind = "return") =>
        /\ Ready
        /\ WrittenBy(disk_index, 0) = File(Val(vector_store))
        /\ WrittenBy(disk_docs, 0) = File(documents)
        /\ \A text \in Texts, k \in 1..MaxK :
              search_results(Val(vector_store), documents, text, k)
                  = search_results(disk_index.data, disk_docs.data, text, k)

\* C15 witness: a load has returned as the first call of a new engine, so
\* what it loaded is what an engine before it saved
C15_Witness ==
    /\ Busy = 0
    /\ ops = 1
    /\ outcome.op = "load"
    /\ outcome.kind = "return"
    /\ published = {<<vector_store, documents>>}
    /\ Len(documents) = 2

\* C17: a load_vector_store that fails raises the not-found error when an
\* artifact of the path is missing and the deserialization error when an
\* artifact cannot be read, and leaves vector_store and documents as they
\* were when the call started (checked on calls that do not overlap).
C17_FailedLoadKeepsEngine ==
    [][(/\ outcome' # outcome
        /\ outcome'.op = "load"
        /\ outcome'.kind = "raise")
       => LET before == IF load.pc = "idle"
                        THEN <<vector_store, documents>>
                        ELSE load.before
          IN /\ outcome'.error =
                    IF disk_index.state = "missing" \/ disk_docs.state = "missing"
                    THEN "NotFound"
                    ELSE "DeserializeError"
             /\ vector_store' = before[1]
             /\ documents' = before[2]]_vars

\* C18: a load_vector_store that returns normally has read an index artifact
\* and a Document artifact written by one and the same save_vector_store
\* call (or both left by the earlier process), also when a save runs while
\* it reads.
C18_LoadReadsOnePersist ==
    [][(/\ load.pc = "read_docs"
        /\ load'.pc = "idle"
        /\ outcome'.kind = "return")
       => load.index_by = disk_docs.by]_vars

\* C19: on a Ready engine no step of search_similar_documents and no step
\* of save_vector_store changes vector_store or documents, whether the call
\* goes on to return or to raise and whatever other calls are in flight.
C19_QueryAndPersistReadOnly ==
    [][(/\ Ready
        /\ (query' # query \/ save' # save))
       => UNCHANGED <<vector_store, documents>>]_vars

\* C19 witness: on a Ready engine a save has failed after writing the index
\* artifact, while a query holds the identifiers of its search
C19_Witness ==
    /\ Ready
    /\ query.pc = "map"
    /\ outcome.op = "save"
    /\ outcome.kind = "raise"
    /\ disk_index.by = outcome.seq

\* C20: every ingest and every query that has started eventually ends,
\* also when the embedder does not answer: its wait is cut off by a timeout.
C20_IngestAndQueryEnd ==
    /\ (ingest.pc # "idle") ~> (ingest.pc = "idle")
    /\ (query.pc # "idle") ~> (query.pc = "idle")

(***************************************************************************)
(* Properties of the segmenter, checked under SpecSplit.                   *)
(***************************************************************************)
SplitDone == seg_pc = "done" /\ seg_directory = <<>> /\ seg_documents = <<>>

\* the single chunk split_text falls back to when the filter keeps nothing
FallbackChunks(text0) == <<Slice(normalize(text0), 0, chunk_size)>>

\* C8: split_text returns at least one chunk for every non-empty text.
C8_NonEmptyResult ==
    (SplitDone /\ seg_text # <<>>) => Len(seg_chunks) >= 1

\* C8 witness: a text of whitespace only, or a text that is one heading, has
\* been split
C8_Witness ==
    /\ SplitDone
    /\ seg_text \in {<<" ", "\n">>, SKILLS}
    /\ Len(seg_chunks) = 1

\* C9: every chunk split_text returns is longer than 30 characters when
\* trimmed, unless the result is the single fallback chunk returned because
\* the filter kept nothing.
C9_ChunksAreSubstantial ==
    SplitDone =>
        \/ \A i \in 1..Len(seg_chunks) :
               Len(strip(seg_chunks[i])) > min_chunk_length
        \/ seg_chunks = FallbackChunks(seg_text)

\* C9 witness: the heading path has produced several chunks and the filter
\* has removed one of them
C9_Witness ==
    /\ SplitDone
    /\ sections_found(normalize(seg_text)) # <<>>
    /\ Len(seg_chunks) >= 2
    /\ Len(seg_chunks) < Len(raw_chunks(normalize(seg_text)))

\* C11: for the 5000-character source without heading and without sentence
\* delimiter, every chunk split_text returns is at most chunk_size (1000)
\* characters long, and the chunks joined by single spaces are the normalized
\* input, nothing lost and nothing added.
C11_LongTextWhitespaceChunks ==
    (SplitDone /\ seg_text = Source5000) =>
        /\ \A i \in 1..Len(seg_chunks) : Len(seg_chunks[i]) <= chunk_size
        /\ join(seg_chunks, <<" ">>) = normalize(seg_text)

\* the files of a directory that process_pdfs_from_directory segments
Eligible(file) ==
    endswith(file.name, <<".", "p", "d", "f">>) /\ strip(file.text) # <<>>
DirectoryDone == seg_pc = "done" /\ seg_text = <<>>

\* the Documents at positions first+1 .. first+n are the n chunks of one
\* source, numbered 0..n-1, each with total_chunks = n
NumberedRun(docs, first, chunks, source) ==
    \A i \in 1..Len(chunks) :
        /\ docs[first + i].page_content = chunks[i]
        /\ docs[first + i].metadata.source = source
        /\ docs[first + i].metadata.chunk = i - 1
        /\ docs[first + i].metadata.total_chunks = Len(chunks)

\* C12: the Documents made for one source carry the chunk indices 0..n-1 in
\* chunk order and total_chunks = n, n being the number of chunks split_text
\* returned for that source; the indices restart at 0 for every source.
C12_ChunkIndicesPerSource ==
    /\ DirectoryDone =>
        \A sources \in {SelectSeq(seg_directory, Eligible)} :
        \A chunks \in {[e \in 1..Len(sources) |->
                            split_text(sources[e].text)] \o <<>>} :
        \A counts \in {[e \in 1..Len(sources) |-> Len(chunks[e])] \o <<>>} :
        LET ends == Sums(counts, 1, Len(counts))
            First(e) == IF e = 1 THEN 0 ELSE ends[e - 1]
        IN /\ Len(seg_documents) = First(Len(sources) + 1)
           /\ \A e \in 1..Len(sources) :
                  NumberedRun(seg_documents, First(e), chunks[e],
                              sources[e].name)
    /\ (seg_pc = "retrained" /\ strip(seg_text) # <<>>) =>
        \A chunks \in {split_text(seg_text)} :
           /\ Len(seg_documents) = Len(chunks)
           /\ NumberedRun(seg_documents, 0, chunks, retrain_source)

\* C12 witness: a directory of two sources has been processed, the second
\* source giving several Documents
C12_Witness ==
    /\ DirectoryDone
    /\ \E p \in 2..(Len(seg_documents) - 1) :
        /\ seg_documents[p - 1].metadata.chunk >= 1
        /\ seg_documents[p].metadata.chunk = 0
        /\ seg_documents[p + 1].metadata.chunk = 1

\* C16: an ingest of a directory that is empty, or whose sources all give
\* zero chunks, fails with the no-documents error (initialize_from_pdfs and
\* create_vector_store raise) and leaves the engine's index, its Document
\* list and the artifacts of the path as they were.
C16_NoDocumentsFails ==
    [][(/\ seg_pc \in {"create_store", "initialize_store"}
        /\ seg_pc' # seg_pc
        /\ \A f \in 1..Len(seg_directory) :
              \/ ~Eligible(seg_directory[f])
              \/ split_text(seg_directory[f].text) = <<>>)
       => (/\ outcome'.op = "ingest"
           /\ outcome'.kind = "raise"
           /\ outcome'.error = "NoDocuments"
           /\ UNCHANGED <<vector_store, documents, disk_index, disk_docs>>)]_vars

\* C16 witness: initialize_from_pdfs has failed on a directory of files
\* without Documents, on an engine that holds an earlier store
C16_Witness ==
    /\ seg_pc = "initialized"
    /\ seg_directory # <<>>
    /\ outcome.error = "NoDocuments"
    /\ documents = PriorDocuments
    /\ disk_docs = File(PriorDocuments)

ScenarioDirectory == <<PdfFile(<<"d", "o", "c", "1">>, ScenarioText)>>
ScenarioDone == seg_pc = "done" /\ seg_directory = ScenarioDirectory

\* C10 as claimed: the scenario source gives exactly 2 Documents, chunk 0
\* containing EDUCATION and chunk 1 containing SKILLS, both with
\* total_chunks = 2.
C10_ScenarioTwoDocuments ==
    ScenarioDone =>
        /\ Len(seg_documents) = 2
        /\ seg_documents[1].metadata.chunk = 0
        /\ contains(seg_documents[1].page_content, EDUCATION)
        /\ seg_documents[2].metadata.chunk = 1
        /\ contains(seg_documents[2].page_content, SKILLS)
        /\ \A i \in 1..2 : seg_documents[i].metadata.total_chunks = 2

\* C10 as amended: the scenario source gives exactly 1 Document, the whole
\* text with chunk 0 and total_chunks = 1: both section chunks are no longer
\* than 30 characters, the filter removes them and the fallback chunk is
\* returned.
C10_ScenarioOneDocument ==
    ScenarioDone =>
        /\ Len(seg_documents) = 1
        /\ seg_documents[1].page_content = ScenarioText
        /\ seg_documents[1].metadata.chunk = 0
        /\ seg_documents[1].metadata.total_chunks = 1
        /\ contains(seg_documents[1].page_content, EDUCATION)
        /\ contains(seg_documents[1].page_content, SKILLS)

\* C10 witness: the scenario directory has been processed
C10_Witness == ScenarioDone /\ seg_documents # <<>>

\* the introduction of a text with headings: the trimmed text before the
\* first heading
Preamble(text0) ==
    LET text == normalize(text0)
    IN strip(Slice(text, 0, sections_found(text)[1]))
HeadingsFound == SplitDone /\ sections_found(normalize(seg_text)) # <<>>
PreambleEmitted == seg_chunks # <<>> /\ seg_chunks[1] = Preamble(seg_text)

\* C21 as claimed: when a heading is found, the first chunk split_text
\* returns is the introduction if and only if the trimmed introduction is
\* longer than the threshold of the filter (30).
C21_PreambleIffAboveFilterThreshold ==
    HeadingsFound =>
        (PreambleEmitted <=> Len(Preamble(seg_text)) > min_chunk_length)

\* C21 as amended: when a heading is found, the first chunk split_text
\* returns is the introduction if and only if the trimmed introduction is
\* longer than 50 characters, the threshold of the introduction, and is not
\* entirely upper-case.
C21_PreambleIffAboveIntroThreshold ==
    SplitDone =>
        \A text \in {normalize(seg_text)} :
        \A found \in {sections_found(text)} :
            found # <<>> =>
                \A preamble \in {strip(Slice(text, 0, found[1]))} :
                    (seg_chunks # <<>> /\ seg_chunks[1] = preamble) <=>
                        /\ Len(preamble) > min_intro_length
                        /\ ~isupper(preamble)

\* C21 witness: an introduction of 31 to 50 characters has been dropped and
\* the first chunk returned is the section that follows it
C21_Witness ==
    /\ HeadingsFound
    /\ Len(Preamble(seg_text)) > min_chunk_length
    /\ Len(Preamble(seg_text)) <= min_intro_length
    /\ Len(seg_chunks) = 1
    /\ seg_chunks[1] = SKILLS \o <<" ">> \o Phrase56

\* line 76-78: the contents of the sections, before a long one is split
section_contents(text, found) ==
    [i \in 1..Len(found) |->
        strip(Slice(text, found[i],
                    IF i + 1 <= Len(found) THEN found[i + 1] ELSE Len(text)))]

\* C22: when headings are found, the section contents before size-splitting
\* and filtering are, in order, the trimmed substrings text[p_i : p_(i+1)]
\* of the normalized text, the last one running to the end, where
\* p_1 < ... < p_m are the offsets in the text at which the headings first
\* occur, compared without regard to case.
C22_SectionsAreHeadingSpans ==
    HeadingsFound =>
        LET text == normalize(seg_text)
            At(i, pat) ==
                /\ UpperChar(text[i + 1]) = <<pat[1]>>
                /\ upper(Slice(text, i, i + Len(pat))) = pat
            Hits(pat) == {i \in 0..(Len(text) - Len(pat)) : At(i, pat)}
            First(pat) == CHOOSE i \in Hits(pat) : \A j \in Hits(pat) : i <= j
            offsets == {First(section_patterns[p]) :
                            p \in {q \in 1..Len(section_patterns) :
                                        Hits(section_patterns[q]) # {}}}
            p_(r) == CHOOSE i \in offsets :
                        Cardinality({j \in offsets : j < i}) = r - 1
        IN section_contents(text, sections_found(text)) =
              [r \in 1..Cardinality(offsets) |->
                  strip(Slice(text, p_(r),
                              IF r + 1 <= Cardinality(offsets)
                              THEN p_(r + 1) ELSE Len(text)))]

\* C23: for every section longer than chunk_size, every sub-chunk that
\* _split_large_section(section, chunk_size) returns is at most chunk_size
\* characters long, also when one fragment or word is longer than that.
C23_SubChunksWithinMaxSize ==
    HeadingsFound =>
        LET text == normalize(seg_text)
            sections == section_contents(text, sections_found(text))
        IN \A i \in 1..Len(sections) :
              Len(sections[i]) > chunk_size =>
                 LET sub_chunks == _split_large_section(sections[i], chunk_size)
                 IN \A c \in 1..Len(sub_chunks) :
                       Len(sub_chunks[c]) <= chunk_size

\* line 121: the filter has kept no chunk of the text that was split
FilterKeptNothing ==
    /\ SplitDone
    /\ seg_text # <<>>
    /\ filtered_chunks(raw_chunks(normalize(seg_text))) = <<>>

\* C24 as claimed: when the filter keeps nothing, split_text returns one
\* chunk, the first chunk_size characters of the text as it was passed in.
C24_FallbackIsPrefixOfInput ==
    FilterKeptNothing => seg_chunks = <<Slice(seg_text, 0, chunk_size)>>

\* C24 as amended: when the filter keeps nothing, split_text returns one
\* chunk, the first chunk_size characters of the whitespace-normalized text
\* (newlines replaced, whitespace runs collapsed, ends trimmed); for a text
\* of whitespace only that chunk is the empty string.
C24_FallbackIsPrefixOfNormalized ==
    FilterKeptNothing =>
        seg_chunks = <<Slice(normalize(seg_text), 0, chunk_size)>>

\* C24 witness: the fallback chunk has been returned for a text that
\* normalization changes and does not empty
C24_Witness ==
    /\ FilterKeptNothing
    /\ normalize(seg_text) # seg_text
    /\ normalize(seg_text) # <<>>
    /\ seg_chunks = <<normalize(seg_text)>>


(***************************************************************************)
(* app.py: the chat service.  A request is handled by one server thread,   *)
(* one statement of chat() at a time; chat_sessions maps a session id to   *)
(* a list object of the heap, so that two names of one list see each       *)
(* other's appends and a slice is a new list.                              *)
(***************************************************************************)
MaxHistory == 20
\* requests the server takes in one run
MaxRequests == 2
\* bookkeeping of a request that arrives
StartRequest ==
    /\ ops < MaxRequests
    /\ ops' = ops + 1
\* a session_id that is a JSON list or object
Unhashable == "unhashable"
ChatInputs == {<<>>, Hello, TellExperience}
Bodies ==
    {NoJson} \cup
    {[json |-> TRUE, message |-> m, session_id |-> s] :
        m \in ChatInputs, s \in SessionIds \cup {Unhashable}}

\* the request is answered: the thread is free again
Finished(r, status) ==
    [r EXCEPT !.pc = "idle", !.chat_history = 0, !.text = "",
              !.status = status]
AllIdle == \A t \in Threads : req[t].pc = "idle"
\* the history chat_sessions holds for a session
ChatHistory(s) == IF chat_sessions[s] = 0 THEN <<>> ELSE heap[chat_sessions[s]]
UserEntry(message) == [role |-> "user", content |-> message]
AssistantEntry(text) == [role |-> "assistant", content |-> <<text>>]
\* chat_history[-20:]
LastN(s, n) == Slice(s, Max(Len(s) - n, 0), Len(s))
\* a variant: chat_history[:20]
FirstN(s, n) == Slice(s, 0, n)

\* pdf_processor.py line 221-243 run to its end inside one call
SearchOutcomes(text, k) ==
    IF vector_store = None
    THEN {[kind |-> "raise", error |-> "NotInitialized", results |-> <<>>]}
    ELSE {[kind |-> "raise", error |-> "EmbedderFailure", results |-> <<>>],
          [kind |-> "return", error |-> "none",
           results |-> search_results(Val(vector_store), documents, text, k)]}

\* n exchanges of the message with an engine that holds no store
Exchanges(message, n) ==
    [i \in 1..(2 * n) |->
        IF i % 2 = 1 THEN UserEntry(message)
        ELSE AssistantEntry(EnhancedChatbotEngine_generate_response(
                message, NoData,
                [kind |-> "raise", error |-> "NotInitialized",
                 results |-> <<>>]).text)]

\* line 97-106: the main program.  chatbot.load_existing_knowledge() is
\* called without its vector_store_path: the TypeError is caught and
\* printed, and the server starts
main_load_existing_knowledge ==
    /\ chat_pc = "main"
    /\ chat_pc' = "serving"
    /\ UNCHANGED <<enginevars, segvars, structured_data, chat_sessions, heap,
                   req, chat_log>>

\* a variant: the empty message is handled like any other
chat_begin_accepts_empty(t) ==
    /\ chat_pc = "serving"
    /\ req[t].pc = "idle"
    /\ StartRequest
    /\ \E body \in Bodies :
        req' = [req EXCEPT ![t] =
            IF ~body.json THEN Finished([ReqIdle EXCEPT !.body = body], 500)
            ELSE [ReqIdle EXCEPT !.pc = "lookup", !.body = body]]
    /\ UNCHANGED <<storevars, segvars, structured_data, chat_pc,
                   chat_sessions, heap, chat_log>>

\* line 34-40: the body is read; a body that is no JSON object raises at
\* data.get (status 500), an empty or missing message is answered 400
chat_begin(t) ==
    /\ chat_pc = "serving"
    /\ req[t].pc = "idle"
    /\ StartRequest
    /\ \E body \in Bodies :
        req' = [req EXCEPT ![t] =
            IF ~body.json THEN Finished([ReqIdle EXCEPT !.body = body], 500)
            ELSE IF body.message = <<>>
            THEN Finished([ReqIdle EXCEPT !.body = body], 400)
            ELSE [ReqIdle EXCEPT !.pc = "lookup", !.body = body]]
    /\ UNCHANGED <<storevars, segvars, structured_data, chat_pc,
                   chat_sessions, heap, chat_log>>

\* line 43: session_id not in chat_sessions; an unhashable session_id raises
\* TypeError (status 500)
chat_lookup(t) ==
    /\ req[t].pc = "lookup"
    /\ req' = [req EXCEPT ![t] =
        IF req[t].body.session_id = Unhashable THEN Finished(req[t], 500)
        ELSE IF chat_sessions[req[t].body.session_id] = 0
        THEN [req[t] EXCEPT !.pc = "create"]
        ELSE [req[t] EXCEPT !.pc = "read"]]
    /\ UNCHANGED <<enginevars, segvars, structured_data, chat_pc,
                   chat_sessions, heap, chat_log>>

\* line 44: chat_sessions[session_id] = []
chat_create(t) ==
    /\ req[t].pc = "create"
    /\ heap' = Append(heap, <<>>)
    /\ chat_sessions' =
        [chat_sessions EXCEPT ![req[t].body.session_id] = Len(heap')]
    /\ req' = [req EXCEPT ![t].pc = "read", ![t].wrote = TRUE]
    /\ UNCHANGED <<enginevars, segvars, structured_data, chat_pc, chat_log>>

\* line 46: chat_history = chat_sessions[session_id]
chat_read(t) ==
    /\ req[t].pc = "read"
    /\ req' = [req EXCEPT ![t].pc = "generate",
                          ![t].chat_history =
                              chat_sessions[req[t].body.session_id]]
    /\ UNCHANGED <<enginevars, segvars, structured_data, chat_pc,
                   chat_sessions, heap, chat_log>>

\* line 49: response = chatbot.generate_response(user_message, chat_history);
\* an exception of the call gives status 500 (line 66-67)
chat_generate(t) ==
    /\ req[t].pc = "generate"
    /\ \E search \in SearchOutcomes(Len(req[t].body.message), 3) :
        LET response == EnhancedChatbotEngine_generate_response(
                            req[t].body.message, structured_data, search)
        IN req' = [req EXCEPT ![t] =
                IF response.kind = "raise" THEN Finished(req[t], 500)
                ELSE [req[t] EXCEPT !.pc = "append_user",
                                    !.text = response.text]]
    /\ UNCHANGED <<enginevars, segvars, structured_data, chat_pc,
                   chat_sessions, heap, chat_log>>

\* line 52: chat_history.append({"role": "user", ...})
chat_append_user(t) ==
    /\ req[t].pc = "append_user"
    /\ heap' = [heap EXCEPT ![req[t].chat_history] =
                    Append(@, UserEntry(req[t].body.message))]
    /\ chat_log' = [chat_log EXCEPT ![req[t].body.session_id] =
                    Append(@, UserEntry(req[t].body.message))]
    /\ req' = [req EXCEPT ![t].pc = "append_assistant", ![t].wrote = TRUE]
    /\ UNCHANGED <<enginevars, segvars, structured_data, chat_pc,
                   chat_sessions>>

\* line 53: chat_history.append({"role": "assistant", ...})
chat_append_assistant(t) ==
    /\ req[t].pc = "append_assistant"
    /\ heap' = [heap EXCEPT ![req[t].chat_history] =
                    Append(@, AssistantEntry(req[t].text))]
    /\ chat_log' = [chat_log EXCEPT ![req[t].body.session_id] =
                    Append(@, AssistantEntry(req[t].text))]
    /\ req' = [req EXCEPT ![t].pc = "trim", ![t].wrote = TRUE]
    /\ UNCHANGED <<enginevars, segvars, structured_data, chat_pc,
                   chat_sessions>>

\* a variant: the oldest 20 messages are kept
chat_trim_keeps_oldest(t) ==
    /\ req[t].pc = "trim"
    /\ IF Len(heap[req[t].chat_history]) > MaxHistory
       THEN /\ heap' = Append(heap,
                        FirstN(heap[req[t].chat_history], MaxHistory))
            /\ req' = [req EXCEPT ![t].pc = "store",
                                  ![t].chat_history = Len(heap')]
       ELSE /\ req' = [req EXCEPT ![t].pc = "store"]
            /\ UNCHANGED heap
    /\ UNCHANGED <<enginevars, segvars, structured_data, chat_pc,
                   chat_sessions, chat_log>>

\* line 56-57: a history of more than 20 messages is replaced, in the
\* handler's local name, by a new list of its last 20
chat_trim(t) ==
    /\ req[t].pc = "trim"
    /\ IF Len(heap[req[t].chat_history]) > MaxHistory
       THEN /\ heap' = Append(heap,
                        LastN(heap[req[t].chat_history], MaxHistory))
            /\ req' = [req EXCEPT ![t].pc = "store",
                                  ![t].chat_history = Len(heap')]
       ELSE /\ req' = [req EXCEPT ![t].pc = "store"]
            /\ UNCHANGED heap
    /\ UNCHANGED <<enginevars, segvars, structured_data, chat_pc,
                   chat_sessions, chat_log>>

\* line 59-64: chat_sessions[session_id] = chat_history, and the answer
chat_store(t) ==
    /\ req[t].pc = "store"
    /\ chat_sessions' =
        [chat_sessions EXCEPT ![req[t].body.session_id] = req[t].chat_history]
    /\ req' = [req EXCEPT ![t] = Finished([req[t] EXCEPT !.wrote = TRUE], 200)]
    /\ UNCHANGED <<enginevars, segvars, structured_data, chat_pc, heap,
                   chat_log>>

\* The main program about to start with an empty chat_sessions (line 23),
\* or the server after 9 or 10 exchanges in the session "default"; the
\* storage path is empty or holds a persisted store, and the engine holds
\* none
InitChat ==
    /\ NewEngine
    /\ SegmenterOff
    /\ structured_data \in {NoData, ResumeData}
    /\ req = [t \in Threads |-> ReqIdle]
    /\ \/ /\ chat_pc = "main"
          /\ \/ disk_index = Missing /\ disk_docs = Missing
             \/ disk_index = File(encode(<<2, 1>>)) /\ disk_docs = File(<<2, 1>>)
          /\ chat_sessions = [s \in SessionIds |-> 0]
          /\ heap = <<>>
          /\ chat_log = [s \in SessionIds |-> <<>>]
       \/ /\ chat_pc = "serving"
          /\ disk_index = Missing /\ disk_docs = Missing
          /\ \E n \in {MaxHistory \div 2 - 1, MaxHistory \div 2} :
                /\ heap = <<Exchanges(Hello, n)>>
                /\ chat_sessions =
                    [s \in SessionIds |-> IF s = "default" THEN 1 ELSE 0]
                /\ chat_log =
                    [s \in SessionIds |->
                        IF s = "default" THEN Exchanges(Hello, n) ELSE <<>>]

NextChat ==
    \/ main_load_existing_knowledge
    \/ \E t \in Threads : chat_begin(t)
    \/ \E t \in Threads : chat_lookup(t)
    \/ \E t \in Threads : chat_create(t)
    \/ \E t \in Threads : chat_read(t)
    \/ \E t \in Threads : chat_generate(t)
    \/ \E t \in Threads : chat_append_user(t)
    \/ \E t \in Threads : chat_append_assistant(t)
    \/ \E t \in Threads : chat_trim(t)
    \/ \E t \in Threads : chat_store(t)

\* the server's threads handle requests concurrently
SpecChat == InitChat /\ [][NextChat]_vars

\* one request at a time: a request arrives when no other is being handled
NextChatSeq ==
    \/ main_load_existing_knowledge
    \/ AllIdle /\ \E t \in Threads : chat_begin(t)
    \/ \E t \in Threads : chat_lookup(t)
    \/ \E t \in Threads : chat_create(t)
    \/ \E t \in Threads : chat_read(t)
    \/ \E t \in Threads : chat_generate(t)
    \/ \E t \in Threads : chat_append_user(t)
    \/ \E t \in Threads : chat_append_assistant(t)
    \/ \E t \in Threads : chat_trim(t)
    \/ \E t \in Threads : chat_store(t)

SpecChatSeq == InitChat /\ [][NextChatSeq]_vars

\* One call of generate_response(user_message, chat_history): every message,
\* structured data absent, malformed or loaded, and an engine that holds no
\* store, a store, or an index without its Documents
InitAnswer ==
    /\ ingest = IngestIdle
    /\ load = LoadIdle
    /\ save = SaveIdle
    /\ query = QueryIdle
    /\ outcome = NoOutcome
    /\ ops = 0
    /\ disk_index = Missing
    /\ disk_docs = Missing
    /\ \/ vector_store = None /\ documents = <<>> /\ published = {}
       \/ /\ vector_store = Some(encode(<<2, 1>>))
          /\ documents = <<2, 1>>
          /\ published = {<<vector_store, documents>>}
       \/ /\ vector_store = Some(encode(<<2, 1>>))
          /\ documents = <<>>
          /\ published = {}
    /\ SegmenterOff
    /\ structured_data \in {NoData, MalformedData, ResumeData}
    /\ chat_pc = "generate"
    /\ chat_sessions = [s \in SessionIds |-> 0]
    /\ heap = <<>>
    /\ chat_log = [s \in SessionIds |-> <<>>]
    /\ \E m \in ChatMessages :
        req = [t \in Threads |->
                IF t = 1
                THEN [ReqIdle EXCEPT !.pc = "generate",
                        !.body = [json |-> TRUE, message |-> m,
                                  session_id |-> "default"]]
                ELSE ReqIdle]

NextAnswer == \E t \in Threads : chat_generate(t)

SpecAnswer == InitAnswer /\ [][NextAnswer]_vars

(***************************************************************************)
(* Properties of the chat service, checked under SpecChatSeq, SpecChat and *)
(* SpecAnswer.                                                             *)
(***************************************************************************)
\* C25: after any sequence of requests handled one at a time, every
\* session's history in chat_sessions has at most 20 entries and is the last
\* (up to 20) of all the user and assistant messages exchanged in that
\* session, in their order.
C25_SequentialHistoryIsLastTwenty ==
    AllIdle =>
        \A s \in SessionIds :
            /\ Len(ChatHistory(s)) <= MaxHistory
            /\ ChatHistory(s) = LastN(chat_log[s], MaxHistory)

\* a request has been answered 200 and its session's history was trimmed
C25_Witness ==
    /\ AllIdle
    /\ \E t \in Threads : req[t].status = 200
    /\ Len(chat_log["default"]) = MaxHistory + 2
    /\ Len(ChatHistory("default")) = MaxHistory
    /\ ChatHistory("default")[MaxHistory] = chat_log["default"][MaxHistory + 2]

\* how often an entry occurs in a history
Occurrences(history, entry) == Len(SelectSeq(history, LAMBDA e : e = entry))

\* C26: when requests of one session are handled concurrently, no exchange
\* is lost: once all have been answered, and the session exchanged no more
\* than 20 messages, its stored history holds every user message and every
\* assistant response of the session as often as it was exchanged.
C26_ConcurrentExchangesKept ==
    AllIdle =>
        \A s \in SessionIds :
            Len(chat_log[s]) <= MaxHistory =>
                \A i \in 1..Len(chat_log[s]) :
                    Occurrences(ChatHistory(s), chat_log[s][i])
                        = Occurrences(chat_log[s], chat_log[s][i])

\* C27: a request whose message is missing or empty is answered 400 and
\* assigns nothing to chat_sessions and appends to no history; a request
\* answered 500 appends nothing either.
C27_RejectedRequestsWriteNothing ==
    \A t \in Threads :
        (req[t].pc = "idle" /\ req[t].status # 0) =>
            /\ (req[t].body.json /\ req[t].body.message = <<>>) =>
                    (req[t].status = 400 /\ ~req[t].wrote)
            /\ req[t].status \in {400, 500} => ~req[t].wrote

\* one request was answered 400, and one with an unhashable session_id 500
\* after its message was accepted
C27_Witness ==
    /\ req[1].pc = "idle"
    /\ req[1].status = 400
    /\ req[1].body.message = <<>>
    /\ req[2].pc = "idle"
    /\ req[2].status = 500
    /\ req[2].body.session_id = Unhashable
    /\ chat_sessions["s2"] = 0

\* the call of generate_response ended: it returned its text to chat()
Answered(t) == req[t].pc = "append_user"

\* C28: generate_response returns a non-empty string and never raises, for
\* every message and every engine state; with no structured data and an
\* engine that holds no store it returns the fixed "I don't have specific
\* information about that" text.
C28_AlwaysAnswersWithText ==
    [][\A t \in Threads :
        (req[t].pc = "generate" /\ req'[t] # req[t]) =>
            /\ Answered(t)'
            /\ req'[t].text # ""
            /\ (structured_data = NoData /\ vector_store = None) =>
                    req'[t].text = "no_information"]_vars

\* a formatter raised on malformed data and the call returned the apology;
\* a call without data and store returned the fixed text
C28_Witness ==
    /\ Answered(1)
    /\ \/ /\ structured_data = MalformedData
          /\ req[1].body.message = TellExperience
          /\ req[1].text = "apology"
       \/ /\ structured_data = NoData
          /\ vector_store = None
          /\ req[1].text = "no_information"

\* the words of line 107 that keep a message from the personal-info answer
TopicWords ==
    <<<<"p", "r", "o", "j", "e", "c", "t">>, <<"s", "k", "i", "l", "l">>,
      <<"e", "d", "u", "c", "a", "t", "i", "o", "n">>,
      <<"e", "x", "p", "e", "r", "i", "e", "n", "c", "e">>>>

\* C29: with structured data loaded, a message that contains one of the
\* words 'project', 'skill', 'education' or 'experience' is never answered
\* with the personal-info response.
C29_TopicWordsNeverPersonalInfo ==
    \A t \in Threads :
        (/\ Answered(t)
         /\ structured_data = ResumeData
         /\ ContainsAny(strip(lower(req[t].body.message)), TopicWords)) =>
            req[t].text # "personal_info"

\* a persisted knowledge base is on the storage path
PersistedStore == disk_index.state = "ok" /\ disk_docs.state = "ok"

\* C30: when app.py is started as the main program and a persisted knowledge
\* base exists, the engine is Ready from the moment the server takes
\* requests, so that no /api/chat request meets an engine without a store.
C30_ReadyBeforeServing ==
    (chat_pc = "serving" /\ PersistedStore) => Ready
====
